---- MODULE Spec2Model ----
(***************************************************************************)
(* A model of the logo generator: the LogoGenerator pipeline               *)
(* (logo_generator.py), its persistence and batch helpers, and the         *)
(* LogoComposer layer compositor.                                          *)
(*                                                                         *)
(* Numbers: a Python float in [0,1] is modelled as an integer number of    *)
(* hundredths (0.3 -> 30); lengths are integers, products with a fraction  *)
(* are computed as (x * pct) \div 100.                                     *)
(***************************************************************************)
EXTENDS Integers, Sequences, FiniteSets, TLC

(***************************************************************************)
(* Bounds of the model.                                                    *)
(***************************************************************************)
RngMod == 8         \* number of states of the random source
MaxCount == 2       \* largest count passed to batch_generate
MaxLayers == 3      \* largest number of layers held by a LogoComposer
MaxZ == 3           \* z-indices are drawn from 1..MaxZ
MaxAdds == 4        \* add_layer calls over the life of one LogoComposer
MaxRuns == 1        \* batch operations called on one engine
MaxFail == 2        \* the latest save of a batch operation that fails
MaxSteps == 4       \* glow and shadow step counts are drawn from 0..MaxSteps
MaxWidth == 3       \* outline widths are drawn from 0..MaxWidth

(***************************************************************************)
(* Python values.  Every value carries its type, so that isinstance(),     *)
(* tuple/list inequality and the JSON encoding can be modelled.            *)
(***************************************************************************)
Str(s) == [t |-> "str", v |-> s]
Num(n) == [t |-> "num", v |-> n]
Bool(b) == [t |-> "bool", v |-> b]
Tup(s) == [t |-> "tuple", v |-> s]
Lst(s) == [t |-> "list", v |-> s]

isinstance(x, ty) == x.t = ty

Min2(a, b) == IF a <= b THEN a ELSE b
Max2(a, b) == IF a >= b THEN a ELSE b
Pct(x, p) == (x * p) \div 100

\* a colour literal (r, g, b) given in hundredths
RGB(r, g, b) == Tup(<<Num(r), Num(g), Num(b)>>)

\* dict.get(key, default)
Get(config, key, default) == IF key \in DOMAIN config THEN config[key] ELSE default

\* config[key] = value
WithKey(config, key, value) ==
    [k \in (DOMAIN config) \cup {key} |-> IF k = key THEN value ELSE config[k]]

\* x in lst, for a list of strings
In(s, lst) == \E i \in 1..Len(lst.v) : lst.v[i] = Str(s)

\* color[:3]
Slice3(color) == SubSeq(color.v, 1, Min2(3, Len(color.v)))

\* (*color[:3], alpha)
WithAlpha(color, alpha) == Tup(Append(Slice3(color), Num(alpha)))

(***************************************************************************)
(* The random source: a deterministic stream of raw values; its state rng  *)
(* is the position in the stream, and every draw moves it on by one.       *)
(***************************************************************************)
Raw(r) == ((r + 1) * (r + 7) * 131) % 1009

NextRng(r) == (r + 1) % RngMod

\* the sample random.randint(a, b) / random.uniform(a, b) takes in state r
Sample(r, a, b) == a + (Raw(r) % (b - a + 1))

\* the state after n draws
Skip(r, n) == (r + n) % RngMod

(***************************************************************************)
(* ColorPalette                                                            *)
(***************************************************************************)
HarmonyNames == <<"complementary", "triadic", "analogous",
                  "split_complementary", "tetradic", "monochromatic">>

\* a table whose complementary rule adds a third of the circle
HARMONY_RULES_third(rule, h) ==
    CASE rule = "complementary" -> <<(h + 33) % 100>>
      [] rule = "triadic" -> <<(h + 33) % 100, (h + 67) % 100>>
      [] rule = "analogous" -> <<(h + 8) % 100, (h + 92) % 100>>
      [] rule = "split_complementary" -> <<(h + 42) % 100, (h + 58) % 100>>
      [] rule = "tetradic" -> <<(h + 25) % 100, (h + 50) % 100, (h + 75) % 100>>
      [] rule = "monochromatic" -> <<h>>
      [] OTHER -> <<(h + 33) % 100, (h + 67) % 100>>

HARMONY_RULES(rule, h) ==
    CASE rule = "complementary" -> <<(h + 50) % 100>>
      [] rule = "triadic" -> <<(h + 33) % 100, (h + 67) % 100>>
      [] rule = "analogous" -> <<(h + 8) % 100, (h + 92) % 100>>
      [] rule = "split_complementary" -> <<(h + 42) % 100, (h + 58) % 100>>
      [] rule = "tetradic" -> <<(h + 25) % 100, (h + 50) % 100, (h + 75) % 100>>
      [] rule = "monochromatic" -> <<h>>
      [] OTHER -> <<(h + 33) % 100, (h + 67) % 100>>

hsv_to_rgb(h, s, v) ==
    LET i0 == (h * 6) \div 100
        f == (h * 6) % 100
        p == Pct(v, 100 - s)
        q == Pct(v, 100 - Pct(f, s))
        t == Pct(v, 100 - Pct(100 - f, s))
        i == i0 % 6
    IN  CASE i = 0 -> RGB(v, t, p)
          [] i = 1 -> RGB(q, v, p)
          [] i = 2 -> RGB(p, v, t)
          [] i = 3 -> RGB(p, q, v)
          [] i = 4 -> RGB(t, p, v)
          [] OTHER -> RGB(v, p, q)

Clamp01(x) == Max2(0, Min2(100, x))

\* the colours for the hues hs[k..], drawing saturation and value offsets
RECURSIVE HarmoniousFrom(_, _, _, _, _)
HarmoniousFrom(hs, k, saturation, value, r) ==
    IF k > Len(hs) THEN [colors |-> <<>>, rng |-> r]
    ELSE LET s == saturation + Sample(r, -10, 10)
             r2 == NextRng(r)
             v == value + Sample(r2, -10, 10)
             r3 == NextRng(r2)
             rest == HarmoniousFrom(hs, k + 1, saturation, value, r3)
         IN  [colors |-> <<hsv_to_rgb(hs[k], Clamp01(s), Clamp01(v))>> \o rest.colors,
              rng |-> rest.rng]

\* generate_harmonious(base_hue=None, rule): the colour list and the
\* random state left behind
HarmoniousList(res) == [colors |-> Lst(res.colors), rng |-> res.rng]

generate_harmonious(rule, r) ==
    HarmoniousList(HarmoniousFrom(<<Sample(r, 0, 99)>> \o HARMONY_RULES(rule, Sample(r, 0, 99)),
                                  1, 70, 85, NextRng(r)))

\* a palette of the rule's hues alone, without the base hue in front
generate_harmonious_rule_only(base_hue, rule, saturation, value, r) ==
    HarmoniousList(HarmoniousFrom(HARMONY_RULES(rule, base_hue), 1, saturation, value, r))

\* generate_harmonious(base_hue, rule, saturation, value) with a base hue
\* given: no hue is drawn
generate_harmonious_hue(base_hue, rule, saturation, value, r) ==
    HarmoniousList(HarmoniousFrom(<<base_hue>> \o HARMONY_RULES(rule, base_hue),
                                  1, saturation, value, r))

\* an adjust_brightness that only keeps the channels from going negative
adjust_brightness_unclamped(color, factor) ==
    Tup([i \in 1..Len(color.v) |-> Num(Max2(0, Pct(color.v[i].v, factor)))])

adjust_brightness(color, factor) ==
    Tup([i \in 1..Len(color.v) |-> Num(Min2(100, Max2(0, Pct(color.v[i].v, factor))))])

(***************************************************************************)
(* Drawing primitives.  A primitive draw is recorded with its colours and  *)
(* its geometry; None stands for an absent fill or stroke.                 *)
(***************************************************************************)
None == [t |-> "none", v |-> 0]

P(prim, fill, stroke, geom, arg) ==
    [prim |-> prim, fill |-> fill, stroke |-> stroke, geom |-> geom, arg |-> arg]

White == RGB(100, 100, 100)
Black == RGB(0, 0, 0)

\* the outcome of a drawing routine: the draws issued, and the exception
\* raised ("" when it returned)
Drawn(prims) == [prims |-> prims, exc |-> ""]
Raised(prims, exc) == [prims |-> prims, exc |-> exc]

(***************************************************************************)
(* TextRenderer                                                            *)
(***************************************************************************)
render_text(text, xy, fontsize, fontfamily, fill) ==
    <<P("text", fill, None, <<fontsize, xy[1], xy[2]>>, text)>>

render_text_with_shadow(text, xy, fontsize, fontfamily, fill) ==
    <<P("text", Black, None, <<fontsize, xy[1] + 3, xy[2] + 3>>, text),
      P("text", fill, None, <<fontsize, xy[1], xy[2]>>, text)>>

OutlineOffsets == <<<<-1, -1>>, <<-1, 1>>, <<1, -1>>, <<1, 1>>,
                    <<-1, 0>>, <<1, 0>>, <<0, -1>>, <<0, 1>>>>

\* the i-th outline stamp: the offsets in turn, each at multiples
\* 1..outline_width
OutlineStamp(text, xy, fontsize, outline_width, i) ==
    LET off == OutlineOffsets[((i - 1) \div outline_width) + 1]
        mult == ((i - 1) % outline_width) + 1
    IN  P("text", Black, None,
          <<fontsize, xy[1] + off[1] * mult, xy[2] + off[2] * mult>>, text)

\* an outline routine that draws the main text before the stamps
render_text_with_outline_under(text, xy, fontsize, fontfamily, fill, outline_width) ==
    <<P("text", fill, None, <<fontsize, xy[1], xy[2]>>, text)>>
    \o [i \in 1..(Len(OutlineOffsets) * outline_width) |->
           OutlineStamp(text, xy, fontsize, outline_width, i)]

render_text_with_outline(text, xy, fontsize, fontfamily, fill, outline_width) ==
    [i \in 1..(Len(OutlineOffsets) * outline_width) |->
        OutlineStamp(text, xy, fontsize, outline_width, i)]
    \o <<P("text", fill, None, <<fontsize, xy[1], xy[2]>>, text)>>

(***************************************************************************)
(* LogoTemplate: each template maps (width, height, colors, text,          *)
(* fontfamily) to its draws.  colors is a Python list of colours.          *)
(***************************************************************************)
\* colors[k] if len(colors) > k else fallback   (k is a Python index)
ColorOr(colors, k, fallback) ==
    IF Len(colors.v) > k THEN colors.v[k + 1] ELSE fallback

\* text[:2], for the texts of the model
Prefix2(text) == CASE text = "LOGO" -> "LO" [] OTHER -> text

\* a minimal_circle that indexes colors[1] and colors[2] without a guard
minimal_circle_indexed(width, height, colors, text, fontfamily) ==
    LET cx == width \div 2
        cy == height \div 2
        radius == Pct(Min2(width, height), 30)
    IN  IF Len(colors.v) = 0 THEN Raised(<<>>, "IndexError")
        ELSE IF Len(colors.v) = 1
        THEN Raised(<<P("circle", colors.v[1], None, <<radius, cx, cy>>, "")>>,
                    "IndexError")
        ELSE IF Len(colors.v) = 2
        THEN Raised(<<P("circle", colors.v[1], None, <<radius, cx, cy>>, ""),
                      P("circle", colors.v[2], None, <<Pct(radius, 70), cx, cy>>, "")>>,
                    "IndexError")
        ELSE Drawn(<<P("circle", colors.v[1], None, <<radius, cx, cy>>, ""),
                     P("circle", colors.v[2], None, <<Pct(radius, 70), cx, cy>>, ""),
                     P("text", colors.v[3], None, <<Pct(radius, 50), cx, cy>>, text)>>)

minimal_circle(width, height, colors, text, fontfamily) ==
    LET cx == width \div 2
        cy == height \div 2
        radius == Pct(Min2(width, height), 30)
    IN  IF Len(colors.v) = 0 THEN Raised(<<>>, "IndexError")
        ELSE Drawn(<<P("circle", colors.v[1], None, <<radius, cx, cy>>, ""),
                     P("circle", ColorOr(colors, 1, White), None,
                       <<Pct(radius, 70), cx, cy>>, ""),
                     P("text", ColorOr(colors, 2, White), None,
                       <<Pct(radius, 50), cx, cy>>, text)>>)

shield_badge(width, height, colors, text, fontfamily) ==
    LET cx == width \div 2
        cy == height \div 2
        size == Pct(Min2(width, height), 35)
    IN  IF Len(colors.v) = 0 THEN Raised(<<>>, "IndexError")
        ELSE Drawn(<<P("polyline", colors.v[1], ColorOr(colors, 1, White),
                       <<size, cx, cy>>, "shield"),
                     P("text", ColorOr(colors, 2, White), None,
                       <<Pct(size, 35), cx, cy>>, text)>>)

geometric_abstract(width, height, colors, text, fontfamily) ==
    LET cx == width \div 2
        cy == height \div 2
        size == Pct(Min2(width, height), 25)
        n == Len(colors.v)
    IN  IF n = 0 THEN Raised(<<>>, "ZeroDivisionError")
        ELSE Drawn([i \in 1..3 |->
                       P("circle", WithAlpha(colors.v[((i - 1) % n) + 1], 70), None,
                         <<Pct(size, 50), cx, cy, (i - 1) * 120>>, "")]
                   \o (IF text # ""
                       THEN <<P("text", colors.v[1], None,
                                <<Pct(size, 40), cx, cy + Pct(size, 90)>>, text)>>
                       ELSE <<>>))

monogram(width, height, colors, text, fontfamily) ==
    LET cx == width \div 2
        cy == height \div 2
        size == Pct(Min2(width, height), 35)
    IN  IF Len(colors.v) = 0 THEN Raised(<<>>, "IndexError")
        ELSE Drawn(<<P("polyline", colors.v[1], None, <<size, cx, cy>>, "diamond"),
                     P("polyline", None, ColorOr(colors, 1, White),
                       <<size, cx, cy>>, "border"),
                     P("text", ColorOr(colors, 2, White), None,
                       <<Pct(size, 70), cx, cy>>, Prefix2(text))>>)

tech_hexagon(width, height, colors, text, fontfamily) ==
    LET cx == width \div 2
        cy == height \div 2
        size == Pct(Min2(width, height), 32)
    IN  IF Len(colors.v) = 0 THEN Raised(<<>>, "IndexError")
        ELSE Drawn(<<P("polyline", colors.v[1], None, <<size, cx, cy>>, "hexagon"),
                     P("polyline", None, ColorOr(colors, 1, White),
                       <<Pct(size, 70), cx, cy>>, "inner_hex")>>
                   \o [i \in 1..6 |->
                         P("polyline", None, ColorOr(colors, 1, White),
                           <<size, cx, cy, 60 * (i - 1) - 30>>, "line")]
                   \o <<P("text", ColorOr(colors, 2, White), None,
                          <<Pct(size, 35), cx, cy>>, text)>>)

circular_badge(width, height, colors, text, fontfamily) ==
    LET cx == width \div 2
        cy == height \div 2
        radius == Pct(Min2(width, height), 35)
    IN  IF Len(colors.v) = 0 THEN Raised(<<>>, "IndexError")
        ELSE Drawn(<<P("circle", colors.v[1], None, <<radius, cx, cy>>, ""),
                     P("circle", None, ColorOr(colors, 1, White),
                       <<Pct(radius, 85), cx, cy>>, ""),
                     P("circle", ColorOr(colors, 1, RGB(20, 20, 20)), None,
                       <<Pct(radius, 75), cx, cy>>, "")>>
                   \o [i \in 1..12 |->
                         P("circle", ColorOr(colors, 2, White), None,
                           <<3, cx, cy, 30 * (i - 1)>>, "")]
                   \o <<P("polyline", ColorOr(colors, 2, White), None,
                          <<Pct(radius, 30), cx, cy>>, "star"),
                        P("text", colors.v[1], None,
                          <<Pct(radius, 20), cx, cy + Pct(radius, 55)>>, text)>>)

(***************************************************************************)
(* EffectsEngine and PatternGenerator.  The tiling routines and the        *)
(* gradient fills issue one draw per tile or band, all alike; each call    *)
(* is recorded as one draw carrying the routine's name and arguments.      *)
(***************************************************************************)
draw_gradient_background(width, height, color1, color2, direction) ==
    <<P("draw_gradient_background", color1, color2, <<width, height, 50>>,
        IF direction \in {"vertical", "horizontal", "diagonal"}
        THEN direction ELSE "vertical")>>

draw_radial_gradient(center, max_radius, color1, color2) ==
    <<P("draw_radial_gradient", color1, color2,
        <<max_radius, center[1], center[2], 40>>, "")>>

\* the circle drawn for loop index i (i runs from steps down to 1):
\* t = i / steps, r = radius + intensity * (1 - t) * 3, alpha = t * 0.3
GlowCircle(center, radius, color, intensity, steps, i) ==
    P("circle",
      IF Len(color.v) >= 3 THEN WithAlpha(color, (i * 30) \div steps)
      ELSE Tup(Append(color.v, Num((i * 30) \div steps))),
      None,
      <<radius + (intensity * (steps - i) * 3) \div steps, center[1], center[2]>>, "")

\* a glow whose loop index runs upwards: the widest circle is drawn first
draw_glow_ascending(center, radius, color, intensity, steps) ==
    [k \in 1..steps |-> GlowCircle(center, radius, color, intensity, steps, k)]

draw_glow(center, radius, color, intensity, steps) ==
    [k \in 1..steps |-> GlowCircle(center, radius, color, intensity, steps, steps + 1 - k)]

\* the callback invocation of loop index i (i runs from blur_steps down to
\* 1): spread = i * 0.5 is added to the offset, alpha = 0.1 * (blur_steps -
\* i) / blur_steps is appended to the shadow colour.  The offset is recorded
\* in half pixels and the alpha in ten-thousandths.
ShadowStamp(offset, blur_steps, shadow_color, i) ==
    [offset |-> <<2 * offset[1] + i, 2 * offset[2] + i>>,
     color |-> Tup(Append(shadow_color.v, Num((1000 * (blur_steps - i)) \div blur_steps)))]

\* a shadow whose loop index runs upwards
draw_shadow_ascending(offset, blur_steps, shadow_color) ==
    [k \in 1..blur_steps |-> ShadowStamp(offset, blur_steps, shadow_color, k)]

\* the invocations of shape_func, in order
draw_shadow(offset, blur_steps, shadow_color) ==
    [k \in 1..blur_steps |->
        ShadowStamp(offset, blur_steps, shadow_color, blur_steps + 1 - k)]

\* one particle, drawn from the random state r: five draws (angle,
\* distance, radius, colour, alpha)
Particle(center, max_radius, colors, r) ==
    LET angle == Sample(r, 0, 359)
        r1 == NextRng(r)
        distance == Sample(r1, 10, max_radius)
        r2 == NextRng(r1)
        rad == Sample(r2, 1, 4)
        r3 == NextRng(r2)
        color == colors.v[Sample(r3, 1, Len(colors.v))]
        r4 == NextRng(r3)
        alpha == Sample(r4, 30, 100)
    IN  P("circle", WithAlpha(color, alpha), None,
          <<rad, center[1], center[2], distance, angle>>, "")

\* count particles; random.choice raises on an empty colour list, after the
\* first particle's angle, distance and radius were drawn
draw_particle_burst(center, count, max_radius, colors, r) ==
    IF count > 0 /\ Len(colors.v) = 0
    THEN [prims |-> <<>>, exc |-> "IndexError", rng |-> Skip(r, 3)]
    ELSE [prims |-> [i \in 1..count |->
                        Particle(center, max_radius, colors, Skip(r, 5 * (i - 1)))],
          exc |-> "", rng |-> Skip(r, 5 * count)]

draw_lens_flare(center, size) ==
    [k \in 1..5 |->
        P("circle", WithAlpha(RGB(100, 100, 80), (10 * (6 - k)) \div 5), None,
          <<(size * (6 - k)) \div 3, center[1], center[2]>>, "")]
    \o [k \in 1..12 |->
        P("polyline", None, WithAlpha(RGB(100, 100, 80), 15),
          <<Pct(size, 150), center[1], center[2], 30 * (k - 1)>>, "")]

PatternRoutine(pattern) ==
    CASE pattern = "dots" -> "draw_dots"
      [] pattern = "lines" -> "draw_lines"
      [] pattern = "grid" -> "draw_grid"
      [] pattern = "concentric" -> "draw_concentric_circles"
      [] pattern = "hexagon" -> "draw_hexagon_pattern"
      [] pattern = "wave" -> "draw_wave_pattern"
      [] OTHER -> ""

(***************************************************************************)
(* LogoGenerator: the stages of the pipeline.  A stage takes the call's    *)
(* state st = [width, height, config, surface, rng, exc] - the engine's    *)
(* dimensions, the config object, the canvas, the random source and the    *)
(* pending exception - and returns the state it leaves.                    *)
(***************************************************************************)
AVAILABLE_TEMPLATES == <<"minimal_circle", "shield_badge", "geometric_abstract",
                         "monogram", "tech_hexagon", "circular_badge">>
AVAILABLE_PATTERNS == <<"dots", "lines", "grid", "concentric",
                        "hexagon", "wave", "none">>
AVAILABLE_EFFECTS == <<"gradient_bg", "radial_gradient", "glow",
                       "particles", "lens_flare", "shadow", "none">>

\* prims drawn on the canvas, by routine `by` called in stage `stage`
Emit(st, stage, by, prims) ==
    [st EXCEPT !.surface.ops =
        @ \o [i \in 1..Len(prims) |-> [stage |-> stage, by |-> by, d |-> prims[i]]]]

Fail(st, exc) == [st EXCEPT !.exc = exc]

\* the radial gradient drawn under the config and colours of st, if asked
\* for
RadialIfAsked(st, effects, colors) ==
    IF In("radial_gradient", effects) /\ Len(colors.v) >= 2
    THEN Emit(st, "background", "draw_radial_gradient",
              draw_radial_gradient(<<st.width \div 2, st.height \div 2>>,
                  Pct(Max2(st.width, st.height), 80), colors.v[1], colors.v[Len(colors.v)]))
    ELSE st

\* a background stage that tests for the two gradients independently
_apply_background_both(st) ==
    RadialIfAsked(
        IF In("gradient_bg", Get(st.config, "effects", Lst(<<>>)))
           /\ Len(Get(st.config, "colors", Lst(<<RGB(20, 30, 50), RGB(10, 10, 20)>>)).v) >= 2
        THEN Emit(st, "background", "draw_gradient_background",
                  draw_gradient_background(st.width, st.height,
                      Get(st.config, "colors", Lst(<<RGB(20, 30, 50), RGB(10, 10, 20)>>)).v[1],
                      Get(st.config, "colors", Lst(<<RGB(20, 30, 50), RGB(10, 10, 20)>>)).v[
                          Len(Get(st.config, "colors",
                                  Lst(<<RGB(20, 30, 50), RGB(10, 10, 20)>>)).v)],
                      Get(st.config, "gradient_direction", Str("vertical")).v))
        ELSE st,
        Get(st.config, "effects", Lst(<<>>)),
        Get(st.config, "colors", Lst(<<RGB(20, 30, 50), RGB(10, 10, 20)>>)))

_apply_background(st) ==
    LET effects == Get(st.config, "effects", Lst(<<>>))
        colors == Get(st.config, "colors", Lst(<<RGB(20, 30, 50), RGB(10, 10, 20)>>))
        n == Len(colors.v)
    IN  IF In("gradient_bg", effects) /\ n >= 2
        THEN Emit(st, "background", "draw_gradient_background",
                  draw_gradient_background(st.width, st.height, colors.v[1], colors.v[n],
                      Get(st.config, "gradient_direction", Str("vertical")).v))
        ELSE IF In("radial_gradient", effects) /\ n >= 2
        THEN Emit(st, "background", "draw_radial_gradient",
                  draw_radial_gradient(<<st.width \div 2, st.height \div 2>>,
                      Pct(Max2(st.width, st.height), 80), colors.v[1], colors.v[n]))
        ELSE st

\* a pattern stage that indexes the config instead of using its default
_apply_pattern_indexed(st) ==
    IF "pattern" \notin DOMAIN st.config THEN Fail(st, "KeyError")
    ELSE LET pattern == st.config["pattern"].v
             colors == Get(st.config, "colors", Lst(<<RGB(50, 50, 50)>>))
         IN  IF Len(colors.v) = 0 THEN Fail(st, "IndexError")
             ELSE IF PatternRoutine(pattern) = "" THEN st
             ELSE Emit(st, "pattern", PatternRoutine(pattern),
                       <<P(PatternRoutine(pattern),
                           WithAlpha(adjust_brightness(colors.v[1], 50), 15), None,
                           <<st.width, st.height>>, "")>>)

_apply_pattern(st) ==
    LET pattern == Get(st.config, "pattern", Str("none")).v
        colors == Get(st.config, "colors", Lst(<<RGB(50, 50, 50)>>))
    IN  IF Len(colors.v) = 0 THEN Fail(st, "IndexError")
        ELSE LET pattern_color == WithAlpha(adjust_brightness(colors.v[1], 50), 15)
             IN  IF PatternRoutine(pattern) = "" THEN st
                 ELSE Emit(st, "pattern", PatternRoutine(pattern),
                           <<P(PatternRoutine(pattern), pattern_color, None,
                               <<st.width, st.height>>, "")>>)

_apply_pre_effects(st) ==
    LET effects == Get(st.config, "effects", Lst(<<>>))
        colors == Get(st.config, "colors", Lst(<<RGB(100, 100, 100)>>))
        cx == st.width \div 2
        cy == st.height \div 2
    IN  IF In("glow", effects)
        THEN Emit(st, "pre_effects", "draw_glow",
                  draw_glow(<<cx, cy>>, 30,
                            IF Len(colors.v) > 0 THEN colors.v[1] ELSE White, 8, 15))
        ELSE st

\* the name of the template function the lookup selects
TemplateFunc(template_name) ==
    IF \E i \in 1..Len(AVAILABLE_TEMPLATES) : AVAILABLE_TEMPLATES[i] = template_name
    THEN template_name ELSE "minimal_circle"

\* a lookup that indexes the template table instead of using its default
TemplateDraws_strict(template_name, width, height, colors, text, fontfamily) ==
    CASE template_name = "minimal_circle" ->
             minimal_circle(width, height, colors, text, fontfamily)
      [] template_name = "shield_badge" ->
             shield_badge(width, height, colors, text, fontfamily)
      [] template_name = "geometric_abstract" ->
             geometric_abstract(width, height, colors, text, fontfamily)
      [] template_name = "monogram" ->
             monogram(width, height, colors, text, fontfamily)
      [] template_name = "tech_hexagon" ->
             tech_hexagon(width, height, colors, text, fontfamily)
      [] template_name = "circular_badge" ->
             circular_badge(width, height, colors, text, fontfamily)
      [] OTHER -> Raised(<<>>, "KeyError")

TemplateDraws(template_name, width, height, colors, text, fontfamily) ==
    CASE template_name = "minimal_circle" ->
             minimal_circle(width, height, colors, text, fontfamily)
      [] template_name = "shield_badge" ->
             shield_badge(width, height, colors, text, fontfamily)
      [] template_name = "geometric_abstract" ->
             geometric_abstract(width, height, colors, text, fontfamily)
      [] template_name = "monogram" ->
             monogram(width, height, colors, text, fontfamily)
      [] template_name = "tech_hexagon" ->
             tech_hexagon(width, height, colors, text, fontfamily)
      [] template_name = "circular_badge" ->
             circular_badge(width, height, colors, text, fontfamily)
      [] OTHER -> minimal_circle(width, height, colors, text, fontfamily)

\* the canvas after the template function ran with outcome res
TemplateDrawn(st, template_name, res) ==
    IF res.exc = "" THEN Emit(st, "template", TemplateFunc(template_name), res.prims)
    ELSE Fail(Emit(st, "template", TemplateFunc(template_name), res.prims), res.exc)

\* a template stage that stores the template name it resolved in the config
_apply_template_writeback(st) ==
    TemplateDrawn([st EXCEPT !.config =
                      [k \in (DOMAIN st.config) \cup {"template"} |->
                          IF k = "template"
                          THEN Str(TemplateFunc(Get(st.config, "template",
                                                    Str("minimal_circle")).v))
                          ELSE st.config[k]]],
                  Get(st.config, "template", Str("minimal_circle")).v,
                  TemplateDraws(Get(st.config, "template", Str("minimal_circle")).v,
                                st.width, st.height,
                                Get(st.config, "colors", Lst(<<RGB(20, 40, 80), White, White>>)),
                                Get(st.config, "text", Str("LOGO")).v,
                                Get(st.config, "fontfamily", Str("Arial")).v))

_apply_template(st) ==
    TemplateDrawn(st,
                  Get(st.config, "template", Str("minimal_circle")).v,
                  TemplateDraws(Get(st.config, "template", Str("minimal_circle")).v,
                                st.width, st.height,
                                Get(st.config, "colors", Lst(<<RGB(20, 40, 80), White, White>>)),
                                Get(st.config, "text", Str("LOGO")).v,
                                Get(st.config, "fontfamily", Str("Arial")).v))

ShapeTypes == <<"circle", "square", "diamond", "triangle">>

\* the shape type drawn by a decorative element that starts in random
\* state r: the fifth of its draws (angle, distance, colour, alpha,
\* shape type, size, and a rotation for a square)
ElementShape(r) == ShapeTypes[Sample(Skip(r, 4), 1, 4)]

ElementDraws(r) == IF ElementShape(r) = "square" THEN 7 ELSE 6

\* the random state in which the i-th decorative element starts
RECURSIVE ElementStart(_, _)
ElementStart(r, i) ==
    IF i = 1 THEN r
    ELSE Skip(ElementStart(r, i - 1), ElementDraws(ElementStart(r, i - 1)))

\* the draw of the decorative element that starts in random state r;
\* a "triangle" draws nothing
ExtraElement(width, height, colors, r) ==
    LET m == Min2(width, height)
        angle == Sample(r, 0, 359)
        distance == Sample(Skip(r, 1), Pct(m, 35), Pct(m, 45))
        color == colors.v[Sample(Skip(r, 2), 1, Len(colors.v))]
        alpha_color == WithAlpha(color, Sample(Skip(r, 3), 30, 70))
        shape_type == ElementShape(r)
        size == Sample(Skip(r, 5), 3, 10)
        geom == <<size, width \div 2, height \div 2, distance, angle>>
    IN  CASE shape_type = "circle" -> P("circle", alpha_color, None, geom, "")
          [] shape_type = "square" ->
                P("square", alpha_color, None, Append(geom, Sample(Skip(r, 6), 0, 180)), "")
          [] shape_type = "diamond" -> P("polyline", alpha_color, None, geom, "diamond")
          [] OTHER -> P("nothing", None, None, <<>>, "")

IsDraw(prim) == prim.prim # "nothing"

_apply_extra_shapes(st) ==
    IF ~ Get(st.config, "extra_shapes", Bool(FALSE)).v THEN st
    ELSE LET colors == Get(st.config, "colors", Lst(<<RGB(50, 50, 50)>>))
             num_elements == Sample(st.rng, 3, 8)
             r1 == NextRng(st.rng)
         IN  IF Len(colors.v) = 0
             THEN Fail([st EXCEPT !.rng = Skip(r1, 2)], "IndexError")
             ELSE Emit([st EXCEPT !.rng = ElementStart(r1, num_elements + 1)],
                       "extra_shapes", "_apply_extra_shapes",
                       SelectSeq([i \in 1..num_elements |->
                                     ExtraElement(st.width, st.height, colors,
                                                  ElementStart(r1, i))],
                                 IsDraw))

_apply_text(st) ==
    LET subtitle == Get(st.config, "subtitle", Str("")).v
        colors == Get(st.config, "colors", Lst(<<White>>))
        fontfamily == Get(st.config, "fontfamily", Str("Arial")).v
        xy == <<st.width \div 2, Pct(st.height, 82)>>
        text_color == IF Len(colors.v) > 0 THEN colors.v[Len(colors.v)] ELSE White
        text_effect == Get(st.config, "text_effect", Str("none")).v
    IN  IF subtitle = "" THEN st
        ELSE IF text_effect = "shadow"
        THEN Emit(st, "text", "render_text_with_shadow",
                  render_text_with_shadow(subtitle, xy, 18, fontfamily, text_color))
        ELSE IF text_effect = "outline"
        THEN Emit(st, "text", "render_text_with_outline",
                  render_text_with_outline(subtitle, xy, 18, fontfamily, text_color, 2))
        ELSE Emit(st, "text", "render_text",
                  render_text(subtitle, xy, 18, fontfamily, text_color))

\* the canvas after draw_particle_burst ran with outcome burst
BurstDrawn(st, burst) ==
    IF burst.exc = ""
    THEN Emit([st EXCEPT !.rng = burst.rng], "post_effects", "draw_particle_burst",
              burst.prims)
    ELSE Fail(Emit([st EXCEPT !.rng = burst.rng], "post_effects", "draw_particle_burst",
                   burst.prims), burst.exc)

\* if "particles" in effects: ...
PostParticles(st) ==
    IF In("particles", Get(st.config, "effects", Lst(<<>>)))
    THEN BurstDrawn(st, draw_particle_burst(<<st.width \div 2, st.height \div 2>>, 40,
                                            Pct(Min2(st.width, st.height), 45),
                                            Get(st.config, "colors", Lst(<<White>>)), st.rng))
    ELSE st

\* a lens flare whose position is drawn before the test for the effect
PostLensFlare_eager(st) ==
    IF In("lens_flare", Get(st.config, "effects", Lst(<<>>)))
    THEN Emit([st EXCEPT !.rng = Skip(st.rng, 2)], "post_effects", "draw_lens_flare",
              draw_lens_flare(
                  <<(st.width \div 2)
                       + Sample(st.rng, - Pct(st.width, 20), Pct(st.width, 20)),
                    (st.height \div 2)
                       + Sample(NextRng(st.rng), - Pct(st.height, 20), Pct(st.height, 20))>>,
                  30))
    ELSE [st EXCEPT !.rng = Skip(st.rng, 2)]

\* if "lens_flare" in effects: ...
PostLensFlare(st) ==
    IF In("lens_flare", Get(st.config, "effects", Lst(<<>>)))
    THEN Emit([st EXCEPT !.rng = Skip(st.rng, 2)], "post_effects", "draw_lens_flare",
              draw_lens_flare(
                  <<(st.width \div 2)
                       + Sample(st.rng, - Pct(st.width, 20), Pct(st.width, 20)),
                    (st.height \div 2)
                       + Sample(NextRng(st.rng), - Pct(st.height, 20), Pct(st.height, 20))>>,
                  30))
    ELSE st

\* the particles, then the lens flare unless the particles raised
PostLensFlareAfter(s1) == IF s1.exc = "" THEN PostLensFlare(s1) ELSE s1

_apply_post_effects(st) == PostLensFlareAfter(PostParticles(st))

\* run a stage unless an exception is pending
Then(st, Stage(_)) == IF st.exc = "" THEN Stage(st) ELSE st

\* a pipeline that draws the subtitle before the decorative shapes
generate_reordered(width, height, config, r) ==
    LET st0 == [width |-> width, height |-> height, config |-> config,
                surface |-> [width |-> width, height |-> height,
                             bg_color |-> Get(config, "bg_color", RGB(10, 10, 15)),
                             ops |-> <<>>],
                rng |-> r, exc |-> ""]
        st1 == Then(st0, _apply_background)
        st2 == Then(st1, _apply_pattern)
        st3 == Then(st2, _apply_pre_effects)
        st4 == Then(st3, _apply_template)
        st5 == Then(st4, _apply_text)
        st6 == Then(st5, _apply_extra_shapes)
        st7 == Then(st6, _apply_post_effects)
    IN  st7

\* generate(config) on an engine of the given dimensions: the state the
\* call leaves (canvas, config object, random source, exception)
generate(width, height, config, r) ==
    LET st0 == [width |-> width, height |-> height, config |-> config,
                surface |-> [width |-> width, height |-> height,
                             bg_color |-> Get(config, "bg_color", RGB(10, 10, 15)),
                             ops |-> <<>>],
                rng |-> r, exc |-> ""]
        st1 == Then(st0, _apply_background)
        st2 == Then(st1, _apply_pattern)
        st3 == Then(st2, _apply_pre_effects)
        st4 == Then(st3, _apply_template)
        st5 == Then(st4, _apply_extra_shapes)
        st6 == Then(st5, _apply_text)
        st7 == Then(st6, _apply_post_effects)
    IN  st7

\* k picks, each from the whole pool
RECURSIVE RandomSample_replacing(_, _, _)
RandomSample_replacing(pool, k, r) ==
    IF k = 0 THEN [out |-> <<>>, rng |-> r]
    ELSE LET rest == RandomSample_replacing(pool, k - 1, NextRng(r))
         IN  [out |-> <<pool[Sample(r, 1, Len(pool))]>> \o rest.out, rng |-> rest.rng]

\* random.sample(pool, k): k picks without replacement
RECURSIVE RandomSample(_, _, _)
RandomSample(pool, k, r) ==
    IF k = 0 THEN [out |-> <<>>, rng |-> r]
    ELSE LET n == Len(pool)
             j == Sample(r, 1, n)
             rest == RandomSample(SubSeq([pool EXCEPT ![j] = pool[n]], 1, n - 1),
                                  k - 1, NextRng(r))
         IN  [out |-> <<pool[j]>> \o rest.out, rng |-> rest.rng]

Choice(seq, r) == seq[Sample(r, 1, Len(seq))]

\* the dict _random_config returns, its entries evaluated in order: pal is
\* the palette drawn first, eff the effects sample
RandomConfigOf(pal, eff) ==
    [config |->
        [bg_color |-> adjust_brightness(pal.colors.v[1], 30),
         colors |-> pal.colors,
         template |-> Str(Choice(AVAILABLE_TEMPLATES, pal.rng)),
         pattern |-> Str(Choice(AVAILABLE_PATTERNS, Skip(pal.rng, 1))),
         effects |-> Lst([i \in 1..Len(eff.out) |-> Str(eff.out[i])]),
         text |-> Str("LOGO"),
         subtitle |-> Str(""),
         fontfamily |-> Str(Choice(<<"Arial", "Helvetica", "Georgia", "Verdana">>, eff.rng)),
         fontsize |-> Num(36),
         text_effect |-> Str(Choice(<<"none", "shadow", "outline">>, Skip(eff.rng, 1))),
         extra_shapes |-> Bool(Choice(<<TRUE, FALSE>>, Skip(eff.rng, 2))),
         gradient_direction |->
             Str(Choice(<<"vertical", "horizontal", "diagonal">>, Skip(eff.rng, 3)))],
     rng |-> Skip(eff.rng, 4)]

\* the template and pattern choices, then random.sample(AVAILABLE_EFFECTS,
\* k=random.randint(0, 3))
RandomConfigWith(pal) ==
    RandomConfigOf(pal, RandomSample(AVAILABLE_EFFECTS, Sample(Skip(pal.rng, 2), 0, 3),
                                     Skip(pal.rng, 3)))

_random_config(r) ==
    RandomConfigWith(generate_harmonious(Choice(HarmonyNames, r), NextRng(r)))

(***************************************************************************)
(* State.                                                                  *)
(*   gen        the LogoGenerator: width, height, config (self.config)     *)
(*   rng        the state of the process-wide random source                *)
(*   png_files  the image files on disk: path -> the saved canvas' size    *)
(*   json_files the config files on disk: file name -> JSON text           *)
(*   composer   the LogoComposer: its layers                               *)
(*   adds       the number of add_layer calls made so far                  *)
(*   cleared    the number of add_layer calls made before the last clear() *)
(*   saved      file name -> the config save_config last wrote to it       *)
(*   runs       the number of batch operations called so far               *)
(*   last       the last operation called: its arguments, its result, and  *)
(*              the generate calls it made                                 *)
(*   recent     the config of the most recent generate call made on the    *)
(*              engine, None before the first (a history variable)         *)
(*   gui        the LogoGUI: its widgets' states, its batch and index, the *)
(*              callbacks queued by root.after and its worker threads      *)
(***************************************************************************)
VARIABLES gen, rng, png_files, json_files, composer, adds, cleared, saved, runs, last,
          recent, gui

vars == <<gen, rng, png_files, json_files, composer, adds, cleared, saved, runs, last,
          recent, gui>>

EmptyDict == [k \in {} |-> None]

\* the sizes an engine is constructed with
EngineSizes == {<<500, 500>>, <<300, 200>>}

\* the record of a call: its name, the exception it raised ("" if it
\* returned), its argument and return value, the generate calls and the
\* image saves it made, the layer callbacks it invoked, and the engine's
\* dimensions when it was called
Call(op, exc, arg, ret) ==
    [op |-> op, exc |-> exc, arg |-> arg, ret |-> ret, renders |-> <<>>,
     saves |-> <<>>, calls |-> <<>>, pre |-> [width |-> gen.width, height |-> gen.height]]

NoCall == [op |-> "none", exc |-> "", arg |-> None, ret |-> None, renders |-> <<>>,
           saves |-> <<>>, calls |-> <<>>, pre |-> None]

\* the LogoGUI after __init__ and setup_ui: no batch, GENERATE enabled,
\* Previous and Next disabled, no callback queued, no thread started, no
\* image opened yet
NewGui ==
    [current_batch |-> <<>>, current_index |-> 0,
     gen_button |-> "normal", prev_btn |-> "disabled", next_btn |-> "disabled",
     after |-> <<>>, workers |-> <<>>, opened |-> None]

Init ==
    /\ \E wh \in EngineSizes : gen = [width |-> wh[1], height |-> wh[2], config |-> EmptyDict]
    /\ rng \in 0..(RngMod - 1)
    /\ png_files = EmptyDict
    /\ json_files = EmptyDict
    /\ composer = [layers |-> <<>>]
    /\ adds = 0
    /\ cleared = 0
    /\ saved = EmptyDict
    /\ runs = 0
    /\ last = NoCall
    /\ recent = None
    /\ gui = NewGui

(***************************************************************************)
(* Configs passed by callers.                                              *)
(***************************************************************************)
StrList(names) == Lst([i \in 1..Len(names) |-> Str(names[i])])

Palette3 == Lst(<<RGB(10, 20, 50), RGB(20, 40, 70), RGB(80, 80, 85)>>)
Palette2 == Lst(<<RGB(98, 40, 20), Tup(<<Num(0), Num(30), Num(60), Num(50)>>)>>)
Palette1 == Lst(<<RGB(90, 70, 70)>>)
Palette0 == Lst(<<>>)

Cfg(colors, template, pattern, effects, subtitle, text_effect, extra_shapes) ==
    [bg_color |-> RGB(95, 95, 97),
     colors |-> colors,
     template |-> Str(template),
     pattern |-> Str(pattern),
     effects |-> StrList(effects),
     text |-> Str("LOGO"),
     subtitle |-> Str(subtitle),
     fontfamily |-> Str("Arial"),
     fontsize |-> Num(36),
     text_effect |-> Str(text_effect),
     extra_shapes |-> Bool(extra_shapes),
     gradient_direction |-> Str("diagonal")]

\* the config restricted to some of its keys
Only(config, keys) == [k \in (DOMAIN config) \cap keys |-> config[k]]

\* names and lists crossed with each other: known and unknown template,
\* pattern and effect names, with and without the optional colours
CrossConfigs ==
    { Cfg(c, t, p, e, "", "none", FALSE) :
        c \in {Palette1, Palette3},
        t \in {"tech_hexagon", "hologram"},
        p \in {"dots", "zigzag"},
        e \in {<<>>, <<"radial_gradient", "gradient_bg", "glow">>,
               <<"particles", "lens_flare">>, <<"sparkle", "glow">>} }

\* one field varied at a time
VariedConfigs ==
    { Cfg(Palette3, t, "none", <<"glow">>, "Sub", "shadow", FALSE) :
        t \in {"minimal_circle", "shield_badge", "geometric_abstract", "circular_badge"} }
    \cup { Cfg(c, "monogram", "grid", <<"radial_gradient">>, "Sub", "outline", TRUE) :
        c \in {Palette0, Palette1, Palette2, Palette3} }
    \cup { Cfg(Palette2, "hologram", "zigzag", <<"sparkle">>, s, "none", x) :
        s \in {"", "Sub"}, x \in BOOLEAN }
    \cup { Only(Cfg(Palette3, "circular_badge", "hexagon", <<"gradient_bg", "lens_flare">>,
                    "Sub", "outline", TRUE), ks) :
        ks \in {{}, {"text"}, {"template", "effects", "subtitle", "extra_shapes"},
                {"colors", "pattern"}} }
    \cup { Cfg(Palette3, "circular_badge", "hexagon",
                <<"gradient_bg", "glow", "particles", "lens_flare">>, "Sub", "outline", TRUE) }

Configs == CrossConfigs \cup VariedConfigs

(***************************************************************************)
(* LogoGenerator.generate, called with an explicit config or with None.    *)
(***************************************************************************)
\* the record of one generate call
Render(config, r, st) ==
    [config |-> config, rng |-> r, width |-> st.width, height |-> st.height,
     config_after |-> st.config, surface |-> st.surface, rng_after |-> st.rng,
     exc |-> st.exc]

\* a generate call that stores its config in the engine only when the
\* pipeline completes
Generated_completed(arg, config, r, st) ==
    /\ gen' = IF st.exc = "" THEN [gen EXCEPT !.config = st.config] ELSE gen
    /\ rng' = st.rng
    /\ last' = [Call("generate", st.exc, arg, IF st.exc = "" THEN st.surface ELSE None)
                    EXCEPT !.renders = <<Render(config, r, st)>>]
    /\ recent' = config
    /\ UNCHANGED <<png_files, json_files, composer, adds, cleared, saved, runs, gui>>

\* the engine after a generate call that was passed arg, ran the pipeline on
\* config from random state r and left st
Generated(arg, config, r, st) ==
    /\ gen' = [gen EXCEPT !.config = st.config]
    /\ rng' = st.rng
    /\ last' = [Call("generate", st.exc, arg, IF st.exc = "" THEN st.surface ELSE None)
                    EXCEPT !.renders = <<Render(config, r, st)>>]
    /\ recent' = config
    /\ UNCHANGED <<png_files, json_files, composer, adds, cleared, saved, runs, gui>>

\* a generate that paints the config of the call before it
Generate_stale(config) ==
    Generated(config, config, rng,
              [generate(gen.width, gen.height,
                        IF gen.config = EmptyDict THEN config ELSE gen.config, rng)
                  EXCEPT !.config = config])

\* generate(config)
Generate(config) ==
    Generated(config, config, rng, generate(gen.width, gen.height, config, rng))

\* config = self._random_config(), then the pipeline
GenerateWith(rc) ==
    Generated(None, rc.config, rc.rng, generate(gen.width, gen.height, rc.config, rc.rng))

\* generate(None)
GenerateRandom == GenerateWith(_random_config(rng))

(***************************************************************************)
(* Persistence: save_config writes self.config as JSON, load_config reads  *)
(* a config back.  A JSON document is modelled by its syntax tree.         *)
(***************************************************************************)
\* json.dump of a value: tuples and lists both become arrays
RECURSIVE json_dump(_)
json_dump(x) ==
    IF x.t \in {"tuple", "list"}
    THEN [t |-> "array", v |-> [i \in 1..Len(x.v) |-> json_dump(x.v[i])]]
    ELSE x

\* json.load of a value: arrays become lists
RECURSIVE json_load(_)
json_load(j) ==
    IF j.t = "array"
    THEN Lst([i \in 1..Len(j.v) |-> json_load(j.v[i])])
    ELSE j

\* list(x)
list(x) == Lst(x.v)

\* tuple(x)
tuple(x) == Tup(x.v)

\* the dict save_config builds from self.config
serializable_config(config) ==
    [key \in DOMAIN config |->
        LET value == config[key]
        IN  IF isinstance(value, "tuple") THEN list(value)
            ELSE IF isinstance(value, "list")
            THEN Lst([i \in 1..Len(value.v) |->
                        IF isinstance(value.v[i], "tuple") THEN list(value.v[i])
                        ELSE value.v[i]])
            ELSE value]

\* the JSON document save_config writes
save_config(config) ==
    LET sc == serializable_config(config)
    IN  [key \in DOMAIN sc |-> json_dump(sc[key])]

\* json.load alone, with no conversion back to tuples
load_config_raw(doc) == [key \in DOMAIN doc |-> json_load(doc[key])]

\* the config load_config returns for a JSON document
load_config(doc) ==
    LET config == [key \in DOMAIN doc |-> json_load(doc[key])]
    IN  [key \in DOMAIN config |->
            IF key = "bg_color" /\ isinstance(config[key], "list")
            THEN tuple(config[key])
            ELSE IF key = "colors"
            THEN Lst([i \in 1..Len(config[key].v) |->
                        IF isinstance(config[key].v[i], "list")
                        THEN tuple(config[key].v[i])
                        ELSE config[key].v[i]])
            ELSE config[key]]

ConfigFiles == {"logo_config.json"}

\* f with x mapped to y
Put(f, x, y) == [z \in (DOMAIN f) \cup {x} |-> IF z = x THEN y ELSE f[z]]

\* save_config(filename); writable is whether the file can be opened for
\* writing
SaveConfig(filename, writable) ==
    /\ IF writable
       THEN /\ json_files' = Put(json_files, filename, save_config(gen.config))
            /\ saved' = Put(saved, filename, gen.config)
       ELSE UNCHANGED <<json_files, saved>>
    /\ last' = Call("save_config", IF writable THEN "" ELSE "OSError", Str(filename), None)
    /\ UNCHANGED <<gen, rng, png_files, composer, adds, cleared, runs, recent, gui>>

\* load_config(filename)
LoadConfig(filename) ==
    /\ last' = Call("load_config",
                    IF filename \in DOMAIN json_files THEN "" ELSE "FileNotFoundError",
                    Str(filename),
                    IF filename \in DOMAIN json_files
                    THEN load_config(json_files[filename]) ELSE None)
    /\ UNCHANGED <<gen, rng, png_files, json_files, composer, adds, cleared, saved, runs,
                   recent, gui>>

\* configs for the persistence operations: well-formed ones, and ones whose
\* colours are not held as a list of tuples
ListColor == Lst(<<Num(10), Num(20), Num(30)>>)

PersistConfigs ==
    { Cfg(c, "monogram", "none", <<"shadow">>, "", "none", FALSE) :
        c \in {Palette2, Palette3, Tup(Palette3.v), Lst(<<RGB(90, 70, 70), ListColor>>)} }
    \cup { [bg_color |-> Tup(<<Num(10), Num(10), Num(15), Num(100)>>), colors |-> Palette1],
           [bg_color |-> ListColor, colors |-> Palette1, text |-> Str("AB")],
           _random_config(0).config }

NextPersist ==
    \/ \E config \in PersistConfigs : Generate(config)
    \/ \E filename \in ConfigFiles, writable \in BOOLEAN : SaveConfig(filename, writable)
    \/ \E filename \in ConfigFiles : LoadConfig(filename)

SpecPersist == Init /\ [][NextPersist]_vars

(***************************************************************************)
(* Saving images, batch_generate and generate_size_variants.  A path is    *)
(* the sequence of its characters.                                         *)
(***************************************************************************)
Digit(n) == <<"0", "1", "2", "3", "4", "5", "6", "7", "8", "9">>[n + 1]

\* str(n) of a non-negative integer
RECURSIVE Decimal(_)
Decimal(n) == IF n < 10 THEN <<Digit(n)>> ELSE Decimal(n \div 10) \o <<Digit(n % 10)>>

\* f"{n:03d}": the decimal digits, padded with zeros to three characters
Format03d(n) ==
    LET d == Decimal(n)
    IN  IF Len(d) >= 3 THEN d ELSE [i \in 1..(3 - Len(d)) |-> "0"] \o d

\* os.path.join(output_dir, name) for a relative name
join(output_dir, name) ==
    IF output_dir = <<>> THEN name
    ELSE IF output_dir[Len(output_dir)] = "/" THEN output_dir \o name
    ELSE output_dir \o <<"/">> \o name

\* the image file save() writes for a canvas
save(files, surface, filename) ==
    Put(files, filename, [width |-> surface.width, height |-> surface.height])

\* the locals of a generation loop: the engine, the random source, the
\* files on disk, the list being built, the generate calls and the saves
\* made so far, and the exception that ended the loop ("" if none)
LoopState(g, r, files) ==
    [gen |-> g, rng |-> r, files |-> files, generated_files |-> <<>>,
     renders |-> <<>>, saves |-> <<>>, exc |-> ""]

\* surface = self.generate(config); self.save(surface, filename);
\* generated_files.append(filename).  save_ok is whether the image file can
\* be written
Saved(ls, st, filename, save_ok) ==
    IF st.exc # "" THEN [ls EXCEPT !.exc = st.exc]
    ELSE IF ~save_ok THEN [ls EXCEPT !.exc = "OSError"]
    ELSE [ls EXCEPT
            !.files = save(@, st.surface, filename),
            !.saves = Append(@, [filename |-> filename, surface |-> st.surface]),
            !.generated_files = Append(@, filename)]

Rendered(ls, config, r, st, filename, save_ok) ==
    Saved([ls EXCEPT !.gen.config = st.config, !.rng = st.rng,
                     !.renders = Append(@, Render(config, r, st))],
          st, filename, save_ok)

render_and_save(ls, config, r, filename, save_ok) ==
    Rendered(ls, config, r, generate(ls.gen.width, ls.gen.height, config, r),
             filename, save_ok)

\* the file name of batch_generate's loop index i (from 0)
batch_filename_noindex(output_dir, prefix, i) ==
    join(output_dir, prefix \o <<".", "p", "n", "g">>)

batch_filename(output_dir, prefix, i) ==
    join(output_dir, prefix \o <<"_">> \o Format03d(i + 1) \o <<".", "p", "n", "g">>)

\* one iteration of batch_generate's loop
BatchStepWith(ls, rc, filename, save_ok) ==
    render_and_save(ls, rc.config, rc.rng, filename, save_ok)

batch_step(ls, output_dir, prefix, i, save_ok) ==
    BatchStepWith(ls, _random_config(ls.rng), batch_filename(output_dir, prefix, i), save_ok)

\* the loop's next iteration, unless an exception ended the loop
BatchNext(prev, output_dir, prefix, i, save_ok) ==
    IF prev.exc # "" THEN prev ELSE batch_step(prev, output_dir, prefix, i, save_ok)

\* batch_generate's loop after k iterations; the fail_at-th save fails
RECURSIVE batch_loop(_, _, _, _, _)
batch_loop(ls, output_dir, prefix, fail_at, k) ==
    IF k <= 0 THEN ls
    ELSE BatchNext(batch_loop(ls, output_dir, prefix, fail_at, k - 1),
                   output_dir, prefix, k - 1, fail_at # k)

\* batch_generate(count, output_dir, prefix); fail_at = -1 when the output
\* directory cannot be created
batch_generate(g, r, files, count, output_dir, prefix, fail_at) ==
    IF fail_at = -1 THEN [LoopState(g, r, files) EXCEPT !.exc = "OSError"]
    ELSE batch_loop(LoopState(g, r, files), output_dir, prefix, fail_at, count)

\* the number of random draws made for the colours before colors[i]: one
\* for each of their channels
RECURSIVE ChannelsBefore(_, _)
ChannelsBefore(colors, i) ==
    IF i <= 1 THEN 0 ELSE ChannelsBefore(colors, i - 1) + Len(colors.v[i - 1].v)

\* a variation that does not clamp the channels
VaryColor_unclamped(color, r) ==
    Tup([j \in 1..Len(color.v) |-> Num(color.v[j].v + Sample(Skip(r, j - 1), -10, 10))])

\* tuple(max(0, min(1, c + random.uniform(-0.1, 0.1))) for c in color)
VaryColor(color, r) ==
    Tup([j \in 1..Len(color.v) |->
            Num(Max2(0, Min2(100, color.v[j].v + Sample(Skip(r, j - 1), -10, 10))))])

VariedColors(colors, r) ==
    Lst([i \in 1..Len(colors.v) |-> VaryColor(colors.v[i], Skip(r, ChannelsBefore(colors, i)))])

\* config["extra_shapes"] = random.choice([True, False]);
\* config["pattern"] = random.choice(self.AVAILABLE_PATTERNS)
VariationOf(config, r) ==
    [config |-> WithKey(WithKey(config, "extra_shapes", Bool(Choice(<<TRUE, FALSE>>, r))),
                        "pattern", Str(Choice(AVAILABLE_PATTERNS, Skip(r, 1)))),
     rng |-> Skip(r, 2)]

\* the config of one variation of base_config, and the random state its
\* draws leave
variation_config(base_config, r) ==
    IF "colors" \in DOMAIN base_config
    THEN VariationOf(WithKey(base_config, "colors", VariedColors(base_config["colors"], r)),
                     Skip(r, ChannelsBefore(base_config["colors"],
                                            Len(base_config["colors"].v) + 1)))
    ELSE VariationOf(base_config, r)

\* the file name of generate_variations' loop index i (from 0)
variation_filename(output_dir, i) ==
    join(output_dir, <<"v", "a", "r", "i", "a", "t", "i", "o", "n", "_">>
                     \o Format03d(i + 1) \o <<".", "p", "n", "g">>)

\* an iteration that varies base_config itself (config = base_config) and
\* not a copy of it: what it varies is what the iteration before left
variation_step_aliased(ls, base_config, output_dir, i, save_ok) ==
    BatchStepWith(ls,
                  variation_config(IF ls.renders = <<>> THEN base_config
                                   ELSE ls.renders[Len(ls.renders)].config_after,
                                   ls.rng),
                  variation_filename(output_dir, i), save_ok)

\* one iteration of generate_variations' loop
variation_step(ls, base_config, output_dir, i, save_ok) ==
    BatchStepWith(ls, variation_config(base_config, ls.rng),
                  variation_filename(output_dir, i), save_ok)

\* the loop's next iteration, unless an exception ended the loop
VariationNext(prev, base_config, output_dir, i, save_ok) ==
    IF prev.exc # "" THEN prev ELSE variation_step(prev, base_config, output_dir, i, save_ok)

\* generate_variations' loop after k iterations; the fail_at-th save fails
RECURSIVE variation_loop(_, _, _, _, _)
variation_loop(ls, base_config, output_dir, fail_at, k) ==
    IF k <= 0 THEN ls
    ELSE VariationNext(variation_loop(ls, base_config, output_dir, fail_at, k - 1),
                       base_config, output_dir, k - 1, fail_at # k)

\* generate_variations(base_config, count, output_dir); fail_at = -1 when
\* the output directory cannot be created
generate_variations(g, r, files, base_config, count, output_dir, fail_at) ==
    IF fail_at = -1 THEN [LoopState(g, r, files) EXCEPT !.exc = "OSError"]
    ELSE variation_loop(LoopState(g, r, files), base_config, output_dir, fail_at, count)

DefaultSizes == <<<<64, 64>>, <<128, 128>>, <<256, 256>>, <<512, 512>>, <<1024, 1024>>>>

\* the file name of a size variant
size_filename(output_dir, w, h) ==
    join(output_dir, <<"l", "o", "g", "o", "_">> \o Decimal(w) \o <<"x">> \o Decimal(h)
                     \o <<".", "p", "n", "g">>)

\* one iteration of generate_size_variants' loop, generating without the
\* config
size_step_random(ls, config, wh, output_dir, save_ok) ==
    BatchStepWith([ls EXCEPT !.gen.width = wh[1], !.gen.height = wh[2]],
                  _random_config(ls.rng), size_filename(output_dir, wh[1], wh[2]), save_ok)

\* one iteration of generate_size_variants' loop
size_step(ls, config, wh, output_dir, save_ok) ==
    render_and_save([ls EXCEPT !.gen.width = wh[1], !.gen.height = wh[2]],
                    config, ls.rng, size_filename(output_dir, wh[1], wh[2]), save_ok)

\* the loop's next iteration, unless an exception ended the loop
SizeNext(prev, config, wh, output_dir, save_ok) ==
    IF prev.exc # "" THEN prev ELSE size_step(prev, config, wh, output_dir, save_ok)

\* generate_size_variants' loop after k iterations
RECURSIVE size_loop(_, _, _, _, _, _)
size_loop(ls, config, sizes, output_dir, fail_at, k) ==
    IF k = 0 THEN ls
    ELSE SizeNext(size_loop(ls, config, sizes, output_dir, fail_at, k - 1),
                  config, sizes[k], output_dir, fail_at # k)

\* the engine left at the sizes of the last variant
restore_size_kept(g, original_w, original_h) == g

\* self.width, self.height = original_w, original_h
restore_size(g, original_w, original_h) ==
    [g EXCEPT !.width = original_w, !.height = original_h]

\* generate_size_variants(config, sizes, output_dir); sizes is None or a
\* list of pairs
SizeVariantsDone(done, original_w, original_h) ==
    IF done.exc # "" THEN done
    ELSE [done EXCEPT !.gen = restore_size(@, original_w, original_h)]

SizeVariantsOf(g, r, files, config, size_list, output_dir, fail_at) ==
    IF fail_at = -1 THEN [LoopState(g, r, files) EXCEPT !.exc = "OSError"]
    ELSE SizeVariantsDone(size_loop(LoopState(g, r, files), config, size_list, output_dir,
                                    fail_at, Len(size_list)),
                          g.width, g.height)

generate_size_variants(g, r, files, config, sizes, output_dir, fail_at) ==
    SizeVariantsOf(g, r, files, config, IF sizes = None THEN DefaultSizes ELSE sizes.v,
                   output_dir, fail_at)

LOGOS == <<"l", "o", "g", "o", "s">>
SIZES == <<"s", "i", "z", "e", "s">>
LOGO == <<"l", "o", "g", "o">>

\* batch_generate(count, output_dir, prefix)
\* the engine and the disk after a batch operation op(arg) that left its loop
\* in state ls
BatchDone(op, arg, ls) ==
    /\ runs < MaxRuns
    /\ runs' = runs + 1
    /\ gen' = ls.gen
    /\ rng' = ls.rng
    /\ png_files' = ls.files
    /\ last' = [Call(op, ls.exc, arg, IF ls.exc = "" THEN ls.generated_files ELSE <<>>)
                    EXCEPT !.renders = ls.renders, !.saves = ls.saves]
    /\ recent' = IF ls.renders = <<>> THEN recent ELSE ls.renders[Len(ls.renders)].config
    /\ UNCHANGED <<json_files, composer, adds, cleared, saved, gui>>

BatchGenerate(count, output_dir, prefix, fail_at) ==
    BatchDone("batch_generate",
              [count |-> count, output_dir |-> output_dir, prefix |-> prefix],
              batch_generate(gen, rng, png_files, count, output_dir, prefix, fail_at))

\* generate_size_variants(config, sizes, output_dir)
GenerateSizeVariants(config, sizes, output_dir, fail_at) ==
    BatchDone("generate_size_variants",
              [config |-> config, sizes |-> sizes, output_dir |-> output_dir],
              generate_size_variants(gen, rng, png_files, config, sizes, output_dir, fail_at))

\* configs for the size variants: every stage drawing, and an empty colour
\* list
BatchConfigs ==
    { Cfg(Palette3, "circular_badge", "hexagon", <<"glow", "particles">>, "Sub", "outline", TRUE),
      Cfg(Palette0, "monogram", "grid", <<>>, "", "none", FALSE) }

SizeLists == { Lst(<<>>), Lst(<<<<512, 256>>, <<64, 64>>>>), Lst(<<<<64, 64>>, <<64, 64>>>>) }

\* the calls of generate_size_variants: each config with each list of sizes,
\* and a config with an unknown template name with the default sizes
SizeRuns ==
    { [config |-> config, sizes |-> sizes] : config \in BatchConfigs, sizes \in SizeLists }
    \cup { [config |-> Cfg(Palette1, "hologram", "none", <<>>, "", "none", FALSE),
            sizes |-> None] }

SizesLen(sizes) == IF sizes = None THEN Len(DefaultSizes) ELSE Len(sizes.v)

NextBatch ==
    \/ \E count \in -1..MaxCount, fail_at \in -1..MaxCount :
          /\ fail_at <= count
          /\ BatchGenerate(count, LOGOS, LOGO, fail_at)
    \/ \E run \in SizeRuns, fail_at \in -1..MaxFail :
          /\ fail_at <= SizesLen(run.sizes)
          /\ GenerateSizeVariants(run.config, run.sizes, SIZES, fail_at)

SpecBatch == Init /\ [][NextBatch]_vars

\* base_config as the caller finds it after the loop: config =
\* base_config.copy() is a shallow copy, so the keys the loop assigns
\* (colors, extra_shapes, pattern) are assigned in the copy alone, and
\* every other value is one object that base_config shares with the
\* copies, found as the last generate call left it
base_config_after(base_config, renders) ==
    [key \in DOMAIN base_config |->
        IF /\ key \notin {"colors", "extra_shapes", "pattern"}
           /\ renders # <<>>
           /\ key \in DOMAIN renders[Len(renders)].config_after
        THEN renders[Len(renders)].config_after[key]
        ELSE base_config[key]]

VARIATIONS == <<"v", "a", "r", "i", "a", "t", "i", "o", "n", "s">>

\* generate_variations(base_config, count, output_dir)
GenerateVariations(base_config, count, output_dir, fail_at) ==
    BatchDone("generate_variations",
              [base_config |-> base_config, count |-> count, output_dir |-> output_dir],
              generate_variations(gen, rng, png_files, base_config, count, output_dir,
                                  fail_at))

\* base configs: channels at and near both ends of [0,1], a colour with an
\* alpha channel, a config without colours, a config without template and
\* text
BaseConfigs ==
    { Cfg(c, "shield_badge", "grid", <<"glow">>, "Sub", "none", FALSE) :
        c \in {Palette1, Palette2, Palette3,
                Lst(<<RGB(0, 100, 5), RGB(95, 50, 100)>>)} }
    \cup { Only(Cfg(Palette3, "monogram", "dots", <<>>, "", "none", TRUE), ks) :
        ks \in {{"template", "text", "pattern"}, {"colors", "extra_shapes"}} }

NextVariations ==
    \E base_config \in BaseConfigs, count \in 0..MaxCount, fail_at \in -1..MaxCount :
        /\ fail_at <= count
        /\ GenerateVariations(base_config, count, VARIATIONS, fail_at)

SpecVariations == Init /\ [][NextVariations]_vars

(***************************************************************************)
(* LogoComposer.  A layer is the dict add_layer appends, with the serial   *)
(* number n of the add_layer call that registered it.                      *)
(***************************************************************************)
\* the number of layers of a sorted list that stay before a new layer of
\* key z: those with a key not above z
KeepBefore_strict(sorted_layers, z) ==
    Cardinality({i \in 1..Len(sorted_layers) : sorted_layers[i].z_index < z})

KeepBefore(sorted_layers, z) ==
    Cardinality({i \in 1..Len(sorted_layers) : sorted_layers[i].z_index <= z})

InsertAt(seq, k, x) == SubSeq(seq, 1, k) \o <<x>> \o SubSeq(seq, k + 1, Len(seq))

\* sorted(layers, key=z_index) of the first k layers: a stable sort
RECURSIVE SortedPrefix(_, _)
SortedPrefix(layers, k) ==
    IF k = 0 THEN <<>>
    ELSE InsertAt(SortedPrefix(layers, k - 1),
                  KeepBefore(SortedPrefix(layers, k - 1), layers[k].z_index),
                  layers[k])

unsorted(layers) == layers

sorted(layers) == SortedPrefix(layers, Len(layers))

add_layer(c, draw_func, z_index, n) ==
    [c EXCEPT !.layers = Append(@, [func |-> draw_func, z_index |-> z_index, n |-> n])]

\* compose(bg_color): the canvas, and the layers in the order their
\* callbacks were invoked; a callback draws on the canvas
compose(c, bg_color) ==
    LET sorted_layers == sorted(c.layers)
    IN  [surface |-> [width |-> 500, height |-> 500, bg_color |-> bg_color,
                      ops |-> [i \in 1..Len(sorted_layers) |->
                                 [stage |-> "layer", by |-> sorted_layers[i].func,
                                  d |-> P("layer", None, None, <<>>, "")]]],
         calls |-> sorted_layers]

clear_kept(c) == c

clear(c) == [c EXCEPT !.layers = <<>>]

DrawFuncs == {"bg_layer", "shape_layer"}

AddLayer(draw_func, z_index) ==
    /\ Len(composer.layers) < MaxLayers
    /\ adds < MaxAdds
    /\ composer' = add_layer(composer, draw_func, z_index, adds + 1)
    /\ adds' = adds + 1
    /\ last' = Call("add_layer", "", Str(draw_func), None)
    /\ UNCHANGED <<gen, rng, png_files, json_files, cleared, saved, runs, recent, gui>>

Compose ==
    LET res == compose(composer, RGB(10, 10, 15))
    IN  /\ last' = [Call("compose", "", None, res.surface) EXCEPT !.calls = res.calls]
        /\ UNCHANGED <<gen, rng, png_files, json_files, composer, adds, cleared, saved, runs,
                       recent, gui>>

Clear ==
    /\ composer' = clear(composer)
    /\ cleared' = adds
    /\ last' = Call("clear", "", None, None)
    /\ UNCHANGED <<gen, rng, png_files, json_files, adds, saved, runs, recent, gui>>

NextComposer ==
    \/ \E draw_func \in DrawFuncs, z_index \in 1..MaxZ : AddLayer(draw_func, z_index)
    \/ Compose
    \/ Clear

SpecComposer == Init /\ [][NextComposer]_vars

Next ==
    \/ \E config \in Configs : Generate(config)
    \/ GenerateRandom

Spec == Init /\ [][Next]_vars

(***************************************************************************)
(* Properties of the pipeline.                                             *)
(***************************************************************************)
Stages == <<"background", "pattern", "pre_effects", "template",
            "extra_shapes", "text", "post_effects">>

StageRank(stage) == CHOOSE k \in 1..Len(Stages) : Stages[k] = stage

StagesDrawn(ops) == {ops[i].stage : i \in 1..Len(ops)}

\* C1: in every generate call the draws are issued stage by stage in the
\* order background, pattern, pre-effects, template, extra shapes, text,
\* post-effects - no draw of a later stage comes before a draw of an
\* earlier one, so no stage runs twice - and in the post-effects stage the
\* particles come before the lens flare.
C1_StageOrder ==
    \A k \in 1..Len(last.renders) :
        LET ops == last.renders[k].surface.ops
        IN  \A i \in 1..Len(ops) : \A j \in i..Len(ops) :
                /\ StageRank(ops[i].stage) <= StageRank(ops[j].stage)
                /\ ~ (ops[i].by = "draw_lens_flare" /\ ops[j].by = "draw_particle_burst")

\* a call that completed and drew in all seven stages
C1_Witness ==
    /\ last.op = "generate" /\ last.exc = ""
    /\ StagesDrawn(last.ret.ops) = {Stages[k] : k \in 1..Len(Stages)}
    /\ \E i \in 1..Len(last.ret.ops) : last.ret.ops[i].by = "draw_particle_burst"
    /\ \E i \in 1..Len(last.ret.ops) : last.ret.ops[i].by = "draw_lens_flare"

\* C2: generate leaves the config object it was passed as it was: the same
\* keys, each with the same value.
C2_ConfigNotMutated ==
    \A k \in 1..Len(last.renders) :
        last.renders[k].config_after = last.renders[k].config

\* a completed call on a config that leaves keys out and names an unknown
\* template - the call had to substitute defaults
C2_Witness ==
    /\ last.op = "generate" /\ last.exc = "" /\ last.arg # None
    /\ Len(last.ret.ops) > 0
    /\ "template" \in DOMAIN last.arg
    /\ "colors" \notin DOMAIN last.arg

IsKnown(name, names) == \E i \in 1..Len(names) : names[i] = name

KnownEffects(effects) ==
    Lst(SelectSeq(effects.v, LAMBDA e : IsKnown(e.v, AVAILABLE_EFFECTS)))

\* the config with its unknown names replaced by the defaults: template
\* minimal_circle, pattern none, unknown effects dropped
Defaulted(config) ==
    [k \in DOMAIN config |->
        CASE k = "template" /\ ~ IsKnown(config[k].v, AVAILABLE_TEMPLATES) ->
                Str("minimal_circle")
          [] k = "pattern" /\ ~ IsKnown(config[k].v, AVAILABLE_PATTERNS) -> Str("none")
          [] k = "effects" -> KnownEffects(config[k])
          [] OTHER -> config[k]]

HasUnknownName(config) == Defaulted(config) # config

\* C10: an unknown template, pattern or effect name is not a failure: the
\* call paints exactly the canvas it paints for the config with
\* minimal_circle in place of the unknown template, no pattern in place of
\* the unknown pattern and the unknown effects left out, it raises only if
\* that config raises too, and with a non-empty colour list it raises
\* nothing.
C10_UnknownNamesFallBack ==
    \A k \in 1..Len(last.renders) :
        LET rd == last.renders[k]
            dflt == generate(rd.width, rd.height, Defaulted(rd.config), rd.rng)
        IN  HasUnknownName(rd.config) =>
                /\ rd.surface = dflt.surface
                /\ rd.exc = dflt.exc
                /\ rd.rng_after = dflt.rng
                /\ Len(Get(rd.config, "colors", Palette1).v) > 0 => rd.exc = ""

\* a completed call with an unknown template, pattern and effect that drew
\* the fallback template and went on to the stages after it
C10_Witness ==
    /\ last.op = "generate" /\ last.exc = "" /\ last.arg # None
    /\ "template" \in DOMAIN last.arg /\ last.arg["template"] = Str("hologram")
    /\ "pattern" \in DOMAIN last.arg /\ last.arg["pattern"] = Str("zigzag")
    /\ "effects" \in DOMAIN last.arg /\ In("sparkle", last.arg["effects"])
    /\ {"template", "text"} \subseteq StagesDrawn(last.ret.ops)
    /\ "pattern" \notin StagesDrawn(last.ret.ops)

(***************************************************************************)
(* Properties of the LogoComposer.                                         *)
(***************************************************************************)
ZOf(layers) == [i \in 1..Len(layers) |-> layers[i].z_index]

\* C3: compose invokes the callbacks in ascending z-index order whatever
\* the order of the add_layer calls, and invokes every registered layer
\* exactly once.
C3_AscendingZ ==
    last.op = "compose" =>
        /\ \A i \in 1..Len(last.calls) : \A j \in i..Len(last.calls) :
              last.calls[i].z_index <= last.calls[j].z_index
        /\ Len(last.calls) = Len(composer.layers)
        /\ \A i \in 1..Len(composer.layers) :
              Cardinality({j \in 1..Len(last.calls) : last.calls[j] = composer.layers[i]}) = 1
        /\ [i \in 1..Len(last.calls) |-> last.calls[i].func]
             = [i \in 1..Len(last.ret.ops) |-> last.ret.ops[i].by]

\* layers added with z-indices 3, 1, 2 and invoked in the order 1, 2, 3
C3_Witness ==
    /\ last.op = "compose"
    /\ ZOf(composer.layers) = <<3, 1, 2>>
    /\ ZOf(last.calls) = <<1, 2, 3>>

\* C4: compose is stable: two layers of equal z-index are invoked in the
\* order in which add_layer registered them.
C4_StableOrder ==
    last.op = "compose" =>
        \A i \in 1..Len(last.calls) : \A j \in 1..Len(last.calls) :
            (last.calls[i].z_index = last.calls[j].z_index /\ last.calls[i].n < last.calls[j].n)
                => i < j

\* two layers of equal z-index, registered before a layer of lower z-index,
\* were invoked after it
C4_Witness ==
    /\ last.op = "compose"
    /\ ZOf(composer.layers) = <<2, 2, 1>>
    /\ ZOf(last.calls) = <<1, 2, 2>>

\* C5: after clear() no layer registered before it remains: a compose
\* invokes only layers added after the last clear, and all of those.
C5_ClearDiscards ==
    /\ \A i \in 1..Len(composer.layers) : composer.layers[i].n > cleared
    /\ last.op = "clear" => composer.layers = <<>>
    /\ last.op = "compose" =>
          /\ \A i \in 1..Len(last.calls) : last.calls[i].n > cleared
          /\ {last.calls[i].n : i \in 1..Len(last.calls)}
               = {composer.layers[i].n : i \in 1..Len(composer.layers)}

\* a compose after a clear that discarded layers and was followed by a new
\* add_layer
C5_Witness ==
    /\ last.op = "compose"
    /\ cleared >= 2
    /\ Len(last.calls) = 1
    /\ adds > cleared

(***************************************************************************)
(* Properties of the persistence operations.                               *)
(***************************************************************************)
IsColor(x) == isinstance(x, "tuple") /\ Len(x.v) \in {3, 4}

\* a config as the pipeline documents it: bg_color a colour tuple, colors a
\* list of colour tuples, effects a list of names, the rest scalars
WellFormed(config) ==
    \A key \in DOMAIN config :
        CASE key = "bg_color" -> IsColor(config[key])
          [] key = "colors" ->
                /\ isinstance(config[key], "list")
                /\ \A i \in 1..Len(config[key].v) : IsColor(config[key].v[i])
          [] key = "effects" ->
                /\ isinstance(config[key], "list")
                /\ \A i \in 1..Len(config[key].v) : isinstance(config[key].v[i], "str")
          [] OTHER -> config[key].t \in {"str", "num", "bool"}

\* C6: save_config followed by load_config of the same file is lossless:
\* for a config whose bg_color is a colour tuple and whose colors is a list
\* of colour tuples, the loaded config equals the saved one.
C6_RoundTrip ==
    (last.op = "load_config" /\ last.exc = "" /\ WellFormed(saved[last.arg.v]))
        => last.ret = saved[last.arg.v]

\* a config with a background colour and three colours was saved and loaded
C6_Witness ==
    /\ last.op = "load_config" /\ last.exc = ""
    /\ WellFormed(saved[last.arg.v])
    /\ {"bg_color", "colors", "effects", "extra_shapes"} \subseteq DOMAIN last.ret
    /\ Len(last.ret["colors"].v) = 3

(***************************************************************************)
(* Properties of the batch operations.                                     *)
(***************************************************************************)
\* the list of sizes a call of generate_size_variants iterates over
SizesOf(arg) == IF arg.sizes = None THEN DefaultSizes ELSE arg.sizes.v

SizeOf(surface) == <<surface.width, surface.height>>

\* C7: when generate_size_variants returns, the engine's width and height
\* are what they were when it was called, whatever the list of sizes, and
\* the k-th render of the call ran with the engine set to the k-th size and
\* painted a canvas of that size.
C7_SizeRestored ==
    (last.op = "generate_size_variants" /\ last.exc = "") =>
        LET sizes == SizesOf(last.arg)
        IN  /\ gen.width = last.pre.width
            /\ gen.height = last.pre.height
            /\ Len(last.renders) = Len(sizes)
            /\ \A k \in 1..Len(sizes) :
                  /\ <<last.renders[k].width, last.renders[k].height>> = sizes[k]
                  /\ SizeOf(last.renders[k].surface) = sizes[k]

\* a 300x200 engine returned from rendering a 512x256 and a 64x64 variant
C7_Witness ==
    /\ last.op = "generate_size_variants" /\ last.exc = ""
    /\ last.arg.sizes = Lst(<<<<512, 256>>, <<64, 64>>>>)
    /\ Len(last.renders) = 2
    /\ last.pre = [width |-> 300, height |-> 200]
    /\ gen.width = 300 /\ gen.height = 200

\* the template functions that drew on a canvas
TemplatesOn(surface) ==
    {surface.ops[i].by : i \in {j \in 1..Len(surface.ops) : surface.ops[j].stage = "template"}}

\* C8: every render of a generate_size_variants call is given the config the
\* caller passed and leaves it as it was, all renders draw with the same
\* template function, and the call returns one path per size, the k-th path
\* being the file the k-th size's canvas was saved to.
C8_SameConfigEverySize ==
    (last.op = "generate_size_variants") =>
        LET sizes == SizesOf(last.arg)
        IN  /\ \A k \in 1..Len(last.renders) :
                  /\ last.renders[k].config = last.arg.config
                  /\ last.renders[k].config_after = last.arg.config
            /\ \A j, k \in 1..Len(last.renders) :
                  (last.renders[j].exc = "" /\ last.renders[k].exc = "") =>
                      TemplatesOn(last.renders[j].surface) = TemplatesOn(last.renders[k].surface)
            /\ last.exc = "" =>
                  /\ Len(last.ret) = Len(sizes)
                  /\ Len(last.saves) = Len(sizes)
                  /\ \A k \in 1..Len(sizes) :
                        /\ last.ret[k] = last.saves[k].filename
                        /\ last.saves[k].surface = last.renders[k].surface
                        /\ SizeOf(last.saves[k].surface) = sizes[k]
                        /\ last.ret[k] \in DOMAIN png_files
                        /\ png_files[last.ret[k]] =
                              [width |-> sizes[k][1], height |-> sizes[k][2]]

\* a call that rendered a config with every stage at two different sizes
\* and returned two different paths
C8_Witness ==
    /\ last.op = "generate_size_variants" /\ last.exc = ""
    /\ Len(last.ret) = 2 /\ last.ret[1] # last.ret[2]
    /\ last.arg.config["template"] = Str("circular_badge")
    /\ TemplatesOn(last.renders[1].surface) = {"circular_badge"}
    /\ SizeOf(last.renders[1].surface) # SizeOf(last.renders[2].surface)

\* the path is a file directly inside the directory
Under(path, output_dir) ==
    /\ Len(path) > Len(output_dir) + 1
    /\ SubSeq(path, 1, Len(output_dir)) = output_dir
    /\ path[Len(output_dir) + 1] = "/"
    /\ \A i \in (Len(output_dir) + 2)..Len(path) : path[i] # "/"

\* C9: when batch_generate(count, dir, prefix) with count >= 0 returns, it
\* returns count paths, no two equal, each a file in dir, and the i-th path
\* is the file the i-th canvas was saved to, that canvas having the engine's
\* width and height.
C9_BatchPaths ==
    (last.op = "batch_generate" /\ last.exc = "" /\ last.arg.count >= 0) =>
        /\ Len(last.ret) = last.arg.count
        /\ Len(last.saves) = last.arg.count
        /\ Len(last.renders) = last.arg.count
        /\ \A i, j \in 1..Len(last.ret) : i # j => last.ret[i] # last.ret[j]
        /\ \A i \in 1..Len(last.ret) :
              /\ Under(last.ret[i], last.arg.output_dir)
              /\ last.ret[i] = last.saves[i].filename
              /\ last.saves[i].surface = last.renders[i].surface
              /\ last.renders[i].exc = ""
              /\ SizeOf(last.saves[i].surface) = <<gen.width, gen.height>>
              /\ <<gen.width, gen.height>> = <<last.pre.width, last.pre.height>>
              /\ last.ret[i] \in DOMAIN png_files
              /\ png_files[last.ret[i]] = [width |-> gen.width, height |-> gen.height]

\* a 300x200 engine returned two paths from batch_generate(2, ...)
C9_Witness ==
    /\ last.op = "batch_generate" /\ last.exc = ""
    /\ last.arg.count = 2 /\ Len(last.ret) = 2
    /\ gen.width = 300 /\ gen.height = 200
    /\ DOMAIN png_files = {last.ret[1], last.ret[2]}

(***************************************************************************)
(* generate on configs that leave recognized keys out, or carry keys the   *)
(* pipeline never reads.                                                   *)
(***************************************************************************)
\* a config in which every recognized key differs from its default where
\* the canvas can show it
FullConfig ==
    [Cfg(Palette3, "circular_badge", "hexagon", <<"gradient_bg", "glow", "lens_flare">>,
         "Sub", "outline", TRUE) EXCEPT !.text = Str("ACME")]

RecognizedKeys == DOMAIN FullConfig

\* the keys whose omission is combined freely
CrossedKeys == {"colors", "template", "pattern", "effects", "subtitle", "extra_shapes"}

\* the sets of keys a caller passes
KeySets ==
    { RecognizedKeys \ ks : ks \in SUBSET CrossedKeys }
    \cup { RecognizedKeys \ {k} : k \in RecognizedKeys }
    \cup { {k} : k \in RecognizedKeys }
    \cup { {}, {"subtitle", "colors"}, {"effects", "colors"} }

KeyConfigs ==
    { Only(FullConfig, ks) : ks \in KeySets }
    \cup { WithKey(WithKey(Only(FullConfig, ks), "watermark", Str("draft")),
                   "shadow_depth", Num(4)) :
             ks \in {{}, RecognizedKeys, {"colors", "effects"}, {"template", "text"}} }

NextKeys == \E config \in KeyConfigs : Generate(config)

SpecKeys == Init /\ [][NextKeys]_vars

OpsOf(ops, stage) == SelectSeq(ops, LAMBDA o : o.stage = stage)

\* what the canvas shows of the default of each key the config leaves out
DefaultsShown(config, surface) ==
    LET ops == surface.ops
        tpl == OpsOf(ops, "template")
    IN  /\ Len(tpl) > 0
        /\ "bg_color" \notin DOMAIN config => surface.bg_color = RGB(10, 10, 15)
        /\ "template" \notin DOMAIN config =>
               \A i \in 1..Len(tpl) : tpl[i].by = "minimal_circle"
        /\ "colors" \notin DOMAIN config => tpl[1].d.fill = RGB(20, 40, 80)
        /\ "text" \notin DOMAIN config =>
               \A i \in 1..Len(tpl) : tpl[i].d.prim = "text" => tpl[i].d.arg = "LOGO"
        /\ "pattern" \notin DOMAIN config => OpsOf(ops, "pattern") = <<>>
        /\ "effects" \notin DOMAIN config =>
               /\ OpsOf(ops, "background") = <<>>
               /\ OpsOf(ops, "pre_effects") = <<>>
               /\ OpsOf(ops, "post_effects") = <<>>
        /\ "extra_shapes" \notin DOMAIN config => OpsOf(ops, "extra_shapes") = <<>>
        /\ "subtitle" \notin DOMAIN config => OpsOf(ops, "text") = <<>>
        /\ "text_effect" \notin DOMAIN config =>
               \A i \in 1..Len(ops) : ops[i].stage = "text" => ops[i].by = "render_text"
        /\ "gradient_direction" \notin DOMAIN config =>
               \A i \in 1..Len(ops) :
                   ops[i].by = "draw_gradient_background" => ops[i].d.arg = "vertical"

\* C11: a config that leaves recognized keys out - any of them, or all -
\* or carries keys the pipeline does not know raises nothing: generate
\* returns the canvas, on which the template is drawn and every key left
\* out shows its default (no pattern, no effects, no subtitle, no extra
\* shapes, template minimal_circle, text "LOGO", plain subtitle text, a
\* vertical gradient, the default background and template colours).
C11_MissingKeysDefault ==
    (last.op = "generate" /\ last.arg # None
        /\ Len(Get(last.arg, "colors", Palette1).v) > 0) =>
        /\ last.exc = ""
        /\ last.ret = last.renders[1].surface
        /\ DefaultsShown(last.arg, last.ret)

\* a completed call on a config with none of the recognized keys and two
\* keys the pipeline does not know
C11_Witness ==
    /\ last.op = "generate" /\ last.exc = "" /\ last.arg # None
    /\ DOMAIN last.arg = {"watermark", "shadow_depth"}
    /\ Len(last.ret.ops) > 0

(***************************************************************************)
(* The library called directly: the static methods of LogoTemplate,        *)
(* ColorPalette and EffectsEngine applied to arguments of the caller's     *)
(* choosing.                                                               *)
(***************************************************************************)
LibPalettes == {Palette0, Palette1, Palette2, Palette3,
                Lst(<<RGB(0, 0, 0)>>), Lst(<<RGB(30, 60, 90), RGB(5, 5, 5)>>)}

\* LogoTemplate.<template>(surface, width, height, colors, text)
CallTemplate(template, colors, text) ==
    /\ last' = Call("LogoTemplate", 
                    TemplateDraws(template, gen.width, gen.height, colors, text, "Arial").exc,
                    [template |-> template, colors |-> colors, text |-> text],
                    TemplateDraws(template, gen.width, gen.height, colors, text, "Arial").prims)
    /\ UNCHANGED <<gen, rng, png_files, json_files, composer, adds, cleared, saved, runs,
                   recent, gui>>

\* the record of a generate_harmonious call that returned res
HarmoniousCalled(base_hue, rule, res) ==
    /\ last' = Call("generate_harmonious", "", [base_hue |-> base_hue, rule |-> rule],
                    res.colors)
    /\ rng' = res.rng
    /\ UNCHANGED <<gen, png_files, json_files, composer, adds, cleared, saved, runs, recent, gui>>

\* ColorPalette.generate_harmonious(base_hue, rule); base_hue is None or a
\* hue
GenerateHarmonious(base_hue, rule) ==
    HarmoniousCalled(base_hue, rule,
                     IF base_hue = None THEN generate_harmonious(rule, rng)
                     ELSE generate_harmonious_hue(base_hue.v, rule, 70, 85, rng))

\* ColorPalette.adjust_brightness(color, factor)
AdjustBrightness(color, factor) ==
    /\ last' = Call("adjust_brightness", "", [color |-> color, factor |-> factor],
                    adjust_brightness(color, factor))
    /\ UNCHANGED <<gen, rng, png_files, json_files, composer, adds, cleared, saved, runs,
                   recent, gui>>

\* EffectsEngine.draw_glow(surface, center, radius, color, intensity, steps)
DrawGlow(radius, color, intensity, steps) ==
    /\ last' = Call("draw_glow", "",
                    [radius |-> radius, color |-> color, intensity |-> intensity,
                     steps |-> steps],
                    draw_glow(<<gen.width \div 2, gen.height \div 2>>, radius, color,
                              intensity, steps))
    /\ UNCHANGED <<gen, rng, png_files, json_files, composer, adds, cleared, saved, runs,
                   recent, gui>>

\* EffectsEngine.draw_shadow(surface, shape_func, offset, blur_steps,
\* shadow_color): the call returns nothing; calls holds the invocations of
\* shape_func
DrawShadow(offset, blur_steps, shadow_color) ==
    /\ last' = [Call("draw_shadow", "",
                     [offset |-> offset, blur_steps |-> blur_steps,
                      shadow_color |-> shadow_color], None)
                    EXCEPT !.calls = draw_shadow(offset, blur_steps, shadow_color)]
    /\ UNCHANGED <<gen, rng, png_files, json_files, composer, adds, cleared, saved, runs,
                   recent, gui>>

\* TextRenderer.render_text_with_outline(surface, text, xy, fill=fill,
\* outline_width=outline_width), the outline colour left at its default
RenderTextWithOutline(text, xy, fill, outline_width) ==
    /\ last' = Call("render_text_with_outline", "",
                    [text |-> text, xy |-> xy, fill |-> fill,
                     outline_width |-> outline_width],
                    render_text_with_outline(text, xy, 36, "Arial", fill, outline_width))
    /\ UNCHANGED <<gen, rng, png_files, json_files, composer, adds, cleared, saved, runs,
                   recent, gui>>

\* base hues: the ends of [0,1), and hues on both sides of each wrap
Hues == {0, 25, 33, 49, 50, 75, 99}

LibColors == {RGB(0, 0, 0), RGB(100, 100, 100), RGB(10, 50, 99), RGB(51, 34, 1),
              Tup(<<Num(100), Num(67), Num(33), Num(50)>>), Tup(<<Num(40), Num(60)>>)}

Factors == {0, 30, 50, 100, 150, 200, 300}

StepCounts == 0..MaxSteps \cup {8, 15}

NextLibrary ==
    \/ \E k \in 1..Len(AVAILABLE_TEMPLATES), colors \in LibPalettes, text \in {"LOGO", ""} :
           CallTemplate(AVAILABLE_TEMPLATES[k], colors, text)
    \/ \E base_hue \in {None} \cup {Num(h) : h \in Hues},
          rule \in {HarmonyNames[k] : k \in 1..Len(HarmonyNames)} \cup {"pastel"} :
           GenerateHarmonious(base_hue, rule)
    \/ \E color \in LibColors, factor \in Factors : AdjustBrightness(color, factor)
    \/ \E radius \in {30}, color \in {White, Tup(<<Num(40), Num(60)>>)},
          intensity \in {0, 5, 8}, steps \in StepCounts :
           DrawGlow(radius, color, intensity, steps)
    \/ \E offset \in {<<5, 5>>, <<0, -3>>}, blur_steps \in StepCounts,
          shadow_color \in {Black, RGB(20, 20, 20)} :
           DrawShadow(offset, blur_steps, shadow_color)
    \/ \E fill \in {White, Black}, outline_width \in 0..MaxWidth :
           RenderTextWithOutline("Sub", <<250, 410>>, fill, outline_width)

SpecLibrary == Init /\ [][NextLibrary]_vars

(***************************************************************************)
(* Properties of the templates.                                            *)
(***************************************************************************)
\* the draws without their colours
Outline(prims) ==
    [i \in 1..Len(prims) |-> [prim |-> prims[i].prim, geom |-> prims[i].geom,
                               arg |-> prims[i].arg]]

Gray20 == RGB(20, 20, 20)

\* the colour is one of the list, possibly with an alpha of the template's
SuppliedColor(c, colors) ==
    \E i \in 1..Len(colors.v) : c = colors.v[i] \/ Slice3(c) = Slice3(colors.v[i])

Paints(prims) == {prims[i].fill : i \in 1..Len(prims)} \cup {prims[i].stroke : i \in 1..Len(prims)}

Seed(s) ==
    /\ rng' = s
    /\ UNCHANGED <<gen, png_files, json_files, composer, adds, cleared, saved, runs, last,
                   recent, gui>>

\* configs with no pattern and no effects, with and without the random
\* decorative shapes, and two configs with effects
SeededConfigs ==
    { Cfg(c, t, "none", <<>>, "Sub", "shadow", x) :
        c \in {Palette1, Palette3}, t \in {"minimal_circle", "geometric_abstract"},
        x \in BOOLEAN }
    \cup { Only(Cfg(Palette2, "monogram", "none", <<>>, "", "none", TRUE),
                 {"colors", "template", "extra_shapes"}) }
    \cup { Cfg(Palette3, "shield_badge", "dots", e, "", "none", TRUE) :
        e \in {<<"particles">>, <<"lens_flare", "glow">>} }

NextSeeded ==
    \/ \E config \in SeededConfigs : Generate(config)
    \/ \E s \in 0..(RngMod - 1) : Seed(s)

SpecSeeded == Init /\ [][NextSeeded]_vars

\* pattern "none" and effects []
Plain(config) ==
    /\ Get(config, "pattern", Str("none")) = Str("none")
    /\ Get(config, "effects", Lst(<<>>)) = Lst(<<>>)

TextEffects == <<"none", "shadow", "outline">>

NoRepeats(seq) == \A i \in 1..Len(seq) : \A j \in 1..Len(seq) : seq[i] = seq[j] => i = j

\* C14: the config generate(None) draws from _random_config holds the
\* twelve recognized keys and no other; its template is one of the six
\* templates, its pattern one of the seven pattern names, its text "LOGO",
\* its text_effect none, shadow or outline, and its effects are at most
\* three names of the available effects, no name twice.
C14_RandomConfigWellFormed ==
    (last.op = "generate" /\ last.arg = None) =>
        LET config == last.renders[1].config
        IN  /\ DOMAIN config = RecognizedKeys
            /\ Cardinality(DOMAIN config) = 12
            /\ isinstance(config["template"], "str")
            /\ IsKnown(config["template"].v, AVAILABLE_TEMPLATES)
            /\ isinstance(config["pattern"], "str")
            /\ IsKnown(config["pattern"].v, AVAILABLE_PATTERNS)
            /\ Len(AVAILABLE_TEMPLATES) = 6 /\ Len(AVAILABLE_PATTERNS) = 7
            /\ config["text"] = Str("LOGO")
            /\ IsKnown(config["text_effect"].v, TextEffects)
            /\ isinstance(config["effects"], "list")
            /\ Len(config["effects"].v) \in 0..3
            /\ \A i \in 1..Len(config["effects"].v) :
                   IsKnown(config["effects"].v[i].v, AVAILABLE_EFFECTS)
            /\ NoRepeats(config["effects"].v)

\* a random config with two or more effects
C14_Witness ==
    /\ last.op = "generate" /\ last.arg = None
    /\ Len(last.renders[1].config["effects"].v) >= 2

(***************************************************************************)
(* Properties of generate_variations.                                      *)
(***************************************************************************)
Abs(x) == IF x < 0 THEN -x ELSE x

\* the same key, or the key left out, in both configs
SameEntry(a, b, key) ==
    /\ key \in DOMAIN a <=> key \in DOMAIN b
    /\ key \in DOMAIN a => a[key] = b[key]

\* every channel of every colour in [0,1] and within 0.1 of its base channel
Near(varied, colors) ==
    /\ Len(varied.v) = Len(colors.v)
    /\ \A i \in 1..Len(colors.v) :
           /\ Len(varied.v[i].v) = Len(colors.v[i].v)
           /\ \A j \in 1..Len(colors.v[i].v) :
                  /\ varied.v[i].v[j].v \in 0..100
                  /\ Abs(varied.v[i].v[j].v - colors.v[i].v[j].v) <= 10

\* C15: every config generate_variations renders has the template and the
\* text of the base config (or leaves them out as the base does), a pattern
\* that is one of the available pattern names and a boolean extra_shapes;
\* if the base has colours, with channels in [0,1], the variant has as many,
\* each channel in [0,1] and within 0.1 of the base channel.
C15_VariationsStayNear ==
    last.op = "generate_variations" =>
        \A k \in 1..Len(last.renders) :
            LET config == last.renders[k].config
                base == last.arg.base_config
            IN  /\ SameEntry(config, base, "template")
                /\ SameEntry(config, base, "text")
                /\ "pattern" \in DOMAIN config
                /\ isinstance(config["pattern"], "str")
                /\ IsKnown(config["pattern"].v, AVAILABLE_PATTERNS)
                /\ "extra_shapes" \in DOMAIN config
                /\ isinstance(config["extra_shapes"], "bool")
                /\ "colors" \in DOMAIN config <=> "colors" \in DOMAIN base
                /\ "colors" \in DOMAIN base => Near(config["colors"], base["colors"])

\* two variants of a base whose channels reach both ends of [0,1], saved
\* to two files: the first differs from the base, the second from the first
C15_Witness ==
    /\ last.op = "generate_variations" /\ last.exc = ""
    /\ Len(last.renders) = 2
    /\ "colors" \in DOMAIN last.arg.base_config
    /\ last.arg.base_config["colors"].v[1] = RGB(0, 100, 5)
    /\ last.renders[1].config["colors"] # last.arg.base_config["colors"]
    /\ last.renders[2].config["colors"] # last.renders[1].config["colors"]
    /\ Len(last.ret) = 2 /\ last.ret[1] # last.ret[2]

(***************************************************************************)
(* Properties of ColorPalette.                                             *)
(***************************************************************************)
\* the colours of hue h at the saturations and values generate_harmonious
\* can reach from its defaults 0.7 and 0.85
HueColors(h) == {hsv_to_rgb(h, sat, val) : sat \in 60..80, val \in 75..95}

\* C16: generate_harmonious with rule "complementary" and a base hue h in
\* [0,1) returns exactly two colours, the first a colour of hue h and the
\* second a colour of hue (h + 0.5) mod 1.0.
C16_ComplementaryHues ==
    (last.op = "generate_harmonious" /\ last.arg.rule = "complementary"
        /\ last.arg.base_hue # None) =>
        /\ isinstance(last.ret, "list")
        /\ Len(last.ret.v) = 2
        /\ last.ret.v[1] \in HueColors(last.arg.base_hue.v)
        /\ last.ret.v[2] \in HueColors((last.arg.base_hue.v + 50) % 100)

\* a complementary palette of base hue 0.75, whose second hue wraps to 0.25
C16_Witness ==
    /\ last.op = "generate_harmonious" /\ last.arg.rule = "complementary"
    /\ last.arg.base_hue = Num(75)
    /\ Len(last.ret.v) = 2
    /\ last.ret.v[2] \in HueColors(25)
    /\ last.ret.v[2] \notin HueColors(75)

\* C17: adjust_brightness(c, factor), for a colour c with channels in [0,1]
\* and a factor that is not negative - 2.0 among them - returns as many
\* channels as c has, each in [0,1]: the channel times the factor, or 1.0
\* where that product exceeds 1.0.
C17_BrightnessClamped ==
    (last.op = "adjust_brightness" /\ last.arg.factor >= 0) =>
        /\ isinstance(last.ret, "tuple")
        /\ Len(last.ret.v) = Len(last.arg.color.v)
        /\ \A i \in 1..Len(last.ret.v) :
               /\ last.ret.v[i].v \in 0..100
               /\ last.ret.v[i].v <= (last.arg.color.v[i].v * last.arg.factor) \div 100
               /\ (last.arg.color.v[i].v * last.arg.factor) \div 100 <= 100
                     => last.ret.v[i].v = (last.arg.color.v[i].v * last.arg.factor) \div 100

\* a four-channel colour doubled: the channels 1.0 and 0.67 are cut to 1.0,
\* the channel 0.33 is not
C17_Witness ==
    /\ last.op = "adjust_brightness" /\ last.arg.factor = 200
    /\ last.arg.color = Tup(<<Num(100), Num(67), Num(33), Num(50)>>)
    /\ last.ret = Tup(<<Num(100), Num(100), Num(66), Num(100)>>)

\* the number of hues the rule's entry of HARMONY_RULES returns
TableSize(rule) ==
    CASE rule = "complementary" -> 1
      [] rule = "triadic" -> 2
      [] rule = "analogous" -> 2
      [] rule = "split_complementary" -> 2
      [] rule = "tetradic" -> 3
      [] rule = "monochromatic" -> 1

IsRule(rule) == IsKnown(rule, HarmonyNames)

\* C18 as stated: the palette has one colour for the base hue and one for
\* each hue the rule adds - complementary 2, triadic 3, analogous 3,
\* split-complementary 3, tetradic 4 - and a monochromatic palette has the
\* single colour of the base hue.
C18_MonochromaticSingle ==
    (last.op = "generate_harmonious" /\ IsRule(last.arg.rule)) =>
        Len(last.ret.v) = IF last.arg.rule = "monochromatic" THEN 1
                          ELSE 1 + TableSize(last.arg.rule)

\* C18, amended: the palette has one colour for the base hue, first, and
\* one for each hue of the rule's entry in the table - complementary 2,
\* triadic 3, analogous 3, split-complementary 3, tetradic 4 - and the
\* monochromatic entry holds the base hue itself, so a monochromatic
\* palette has 2 colours, both of the base hue.
C18_PaletteSizes ==
    (last.op = "generate_harmonious" /\ IsRule(last.arg.rule)) =>
        /\ Len(last.ret.v) = 1 + TableSize(last.arg.rule)
        /\ last.arg.base_hue # None =>
               /\ last.ret.v[1] \in HueColors(last.arg.base_hue.v)
               /\ last.arg.rule = "monochromatic" =>
                      last.ret.v[2] \in HueColors(last.arg.base_hue.v)

\* a monochromatic palette of base hue 0.33: two colours of that hue that
\* differ in saturation or value
C18_Witness ==
    /\ last.op = "generate_harmonious" /\ last.arg.rule = "monochromatic"
    /\ last.arg.base_hue = Num(33)
    /\ Len(last.ret.v) = 2
    /\ last.ret.v[1] # last.ret.v[2]
    /\ {last.ret.v[1], last.ret.v[2]} \subseteq HueColors(33)

(***************************************************************************)
(* Properties of EffectsEngine.                                            *)
(***************************************************************************)
\* the radius and the alpha of a circle of the glow
RadiusOf(prim) == prim.geom[1]

AlphaOf(color) == color.v[Len(color.v)].v

\* C19 as stated: the circles of one draw_glow call are drawn from the
\* largest radius to the smallest - the radius never grows from one draw to
\* the next.
C19_LargestFirst ==
    last.op = "draw_glow" =>
        \A i \in 1..Len(last.ret) : \A j \in i..Len(last.ret) :
            RadiusOf(last.ret[i]) >= RadiusOf(last.ret[j])

\* C19, amended: one draw_glow call draws `steps` concentric circles from
\* the smallest radius to the largest - the first has the radius passed in,
\* and the radius never shrinks from one draw to the next - while the alpha
\* never grows.
C19_SmallestFirst ==
    last.op = "draw_glow" =>
        /\ Len(last.ret) = last.arg.steps
        /\ \A i \in 1..Len(last.ret) : \A j \in i..Len(last.ret) :
               /\ RadiusOf(last.ret[i]) <= RadiusOf(last.ret[j])
               /\ AlphaOf(last.ret[i].fill) >= AlphaOf(last.ret[j].fill)
               /\ last.ret[i].geom[2] = last.ret[j].geom[2]
               /\ last.ret[i].geom[3] = last.ret[j].geom[3]
        /\ Len(last.ret) > 0 => RadiusOf(last.ret[1]) = last.arg.radius

\* the glow of the pipeline - radius 30, intensity 8, 15 steps: the first
\* circle has radius 30, the last is wider
C19_Witness ==
    /\ last.op = "draw_glow"
    /\ last.arg.radius = 30 /\ last.arg.intensity = 8 /\ last.arg.steps = 15
    /\ Len(last.ret) = 15
    /\ RadiusOf(last.ret[1]) = 30
    /\ RadiusOf(last.ret[15]) > 30

\* C20 as stated: draw_shadow invokes shape_func blur_steps times, and from
\* one invocation to the next the spread added to the offset does not
\* shrink and the alpha of the shadow colour does not grow.
C20_SpreadGrows ==
    last.op = "draw_shadow" =>
        /\ Len(last.calls) = last.arg.blur_steps
        /\ \A i \in 1..Len(last.calls) : \A j \in i..Len(last.calls) :
               /\ last.calls[i].offset[1] <= last.calls[j].offset[1]
               /\ last.calls[i].offset[2] <= last.calls[j].offset[2]
               /\ AlphaOf(last.calls[i].color) >= AlphaOf(last.calls[j].color)

\* C20, amended: draw_shadow invokes shape_func blur_steps times, and over
\* successive invocations the spread added to the offset decreases - from
\* blur_steps / 2 down to 0.5 - while the alpha of the shadow colour
\* increases from 0; the colour passed is the shadow colour with that alpha
\* appended.
C20_SpreadShrinks ==
    last.op = "draw_shadow" =>
        /\ Len(last.calls) = last.arg.blur_steps
        /\ \A i \in 1..Len(last.calls) : \A j \in (i + 1)..Len(last.calls) :
               /\ last.calls[i].offset[1] > last.calls[j].offset[1]
               /\ last.calls[i].offset[2] > last.calls[j].offset[2]
               /\ AlphaOf(last.calls[i].color) < AlphaOf(last.calls[j].color)
        /\ \A i \in 1..Len(last.calls) :
               /\ last.calls[i].offset[1] - 2 * last.arg.offset[1]
                     = last.calls[i].offset[2] - 2 * last.arg.offset[2]
               /\ Slice3(last.calls[i].color) = last.arg.shadow_color.v
        /\ Len(last.calls) > 0 =>
               /\ last.calls[1].offset[1] - 2 * last.arg.offset[1] = last.arg.blur_steps
               /\ last.calls[Len(last.calls)].offset[1] - 2 * last.arg.offset[1] = 1
               /\ AlphaOf(last.calls[1].color) = 0

\* the default shadow - offset (5, 5), 8 steps, black: eight invocations,
\* the first at spread 4 with alpha 0, the last at spread 0.5
C20_Witness ==
    /\ last.op = "draw_shadow"
    /\ last.arg.offset = <<5, 5>> /\ last.arg.blur_steps = 8
    /\ last.arg.shadow_color = Black
    /\ Len(last.calls) = 8
    /\ last.calls[1].offset = <<18, 18>>
    /\ last.calls[8].offset = <<11, 11>>
    /\ AlphaOf(last.calls[1].color) = 0
    /\ AlphaOf(last.calls[8].color) > 0

(***************************************************************************)
(* Properties of TextRenderer.                                             *)
(***************************************************************************)
\* where a text draw is placed, relative to xy
Displacement(prim, xy) == <<prim.geom[2] - xy[1], prim.geom[3] - xy[2]>>

\* the displacements of the outline: each of the 8 compass offsets at each
\* multiple 1..outline_width
CompassStamps(outline_width) ==
    { <<dx * mult, dy * mult>> :
        dx \in {-1, 0, 1}, dy \in {-1, 0, 1}, mult \in 1..outline_width }
    \ {<<0, 0>>}

\* C21: render_text_with_outline draws exactly 8 * outline_width outline
\* stamps - one at each of the 8 compass offsets times each multiple from 1
\* to outline_width, in the outline colour - and then the main text once,
\* in the fill colour at xy, as the last draw: no draw before the last one
\* is at xy, and nothing follows the main text.
C21_OutlineThenMain ==
    last.op = "render_text_with_outline" =>
        LET n == 8 * last.arg.outline_width
            xy == last.arg.xy
        IN  /\ Len(last.ret) = n + 1
            /\ last.ret[n + 1].fill = last.arg.fill
            /\ Displacement(last.ret[n + 1], xy) = <<0, 0>>
            /\ \A i \in 1..n :
                   /\ last.ret[i].fill = Black
                   /\ Displacement(last.ret[i], xy) # <<0, 0>>
                   /\ last.ret[i].arg = last.arg.text
            /\ {Displacement(last.ret[i], xy) : i \in 1..n}
                  = CompassStamps(last.arg.outline_width)
            /\ Cardinality(CompassStamps(last.arg.outline_width)) = n

\* black text outlined at width 2: sixteen stamps, then the main text, which
\* only its place tells from a stamp
C21_Witness ==
    /\ last.op = "render_text_with_outline"
    /\ last.arg.outline_width = 2 /\ last.arg.fill = Black
    /\ Len(last.ret) = 17
    /\ Displacement(last.ret[17], last.arg.xy) = <<0, 0>>
    /\ Displacement(last.ret[1], last.arg.xy) = <<-1, -1>>
    /\ Displacement(last.ret[2], last.arg.xy) = <<-2, -2>>

(***************************************************************************)
(* Properties of the stages' defaults.                                     *)
(***************************************************************************)
\* the colours the stages painted as the first colour of their list: the
\* start of the gradient, the glow and the template's first shape
FirstColors(ops) ==
    { Slice3(ops[i].d.fill) : i \in { k \in 1..Len(ops) :
          ops[k].by \in {"draw_gradient_background", "draw_radial_gradient", "draw_glow"} } }
    \cup { Slice3(OpsOf(ops, "template")[1].d.fill) : x \in {1} }

\* the colours the stages painted as the last colour of their list: the
\* end of the gradient and the subtitle
LastColors(ops) ==
    { Slice3(ops[i].d.stroke) : i \in { k \in 1..Len(ops) :
          ops[k].by \in {"draw_gradient_background", "draw_radial_gradient"} } }
    \cup { Slice3(ops[i].d.fill) : i \in { k \in 1..Len(ops) :
          ops[k].stage = "text" /\ ops[k].d.fill # Black } }

\* C22: when the config has no "colors" key, the stages of one generate
\* call all fall back to the same default colour list: the stages that
\* paint the first colour of the list paint one and the same colour, and so
\* do the stages that paint its last colour.
C22_OneDefaultColorList ==
    (last.op = "generate" /\ last.exc = "" /\ last.arg # None
        /\ "colors" \notin DOMAIN last.arg) =>
        /\ Cardinality(FirstColors(last.ret.ops)) <= 1
        /\ Cardinality(LastColors(last.ret.ops)) <= 1

(***************************************************************************)
(* Properties of the batch helpers on errors.                              *)
(***************************************************************************)
\* C23: when generate_size_variants ends with an error - a render or a save
\* raised for some size of the list - the engine's width and height are
\* what they were before the call.
C23_SizeRestoredOnError ==
    (last.op = "generate_size_variants" /\ last.exc # "") =>
        /\ gen.width = last.pre.width
        /\ gen.height = last.pre.height

(***************************************************************************)
(* Properties of the background stage.                                     *)
(***************************************************************************)
\* C24: the background stage of a generate call draws at most one
\* gradient: with "gradient_bg" among the effects and two or more colours
\* it draws the linear gradient alone, "radial_gradient" or not; it draws
\* the radial gradient only when "radial_gradient" is among the effects and
\* "gradient_bg" is not; and with fewer than two colours it draws neither.
C24_OneGradient ==
    \A k \in 1..Len(last.renders) :
        LET rd == last.renders[k]
            bgd == OpsOf(rd.surface.ops, "background")
            effects == Get(rd.config, "effects", Lst(<<>>))
            n == Len(Get(rd.config, "colors", Palette2).v)
        IN  /\ Len(bgd) <= 1
            /\ (In("gradient_bg", effects) /\ n >= 2) =>
                   (Len(bgd) = 1 /\ bgd[1].by = "draw_gradient_background")
            /\ (Len(bgd) = 1 /\ bgd[1].by = "draw_radial_gradient") =>
                   (In("radial_gradient", effects) /\ ~ In("gradient_bg", effects))
            /\ (In("radial_gradient", effects) /\ ~ In("gradient_bg", effects) /\ n >= 2) =>
                   (Len(bgd) = 1 /\ bgd[1].by = "draw_radial_gradient")
            /\ n < 2 => bgd = <<>>

\* a completed call with both gradients among the effects and three
\* colours: the linear gradient, and no radial gradient
C24_Witness ==
    /\ last.op = "generate" /\ last.exc = "" /\ last.arg # None
    /\ "effects" \in DOMAIN last.arg
    /\ In("gradient_bg", last.arg["effects"]) /\ In("radial_gradient", last.arg["effects"])
    /\ Len(Get(last.arg, "colors", Palette1).v) = 3
    /\ Len(OpsOf(last.ret.ops, "background")) = 1
    /\ OpsOf(last.ret.ops, "background")[1].by = "draw_gradient_background"

(***************************************************************************)
(* Where the pipeline reads the random source.                             *)
(***************************************************************************)
\* the config asks for none of the stages that draw random numbers
Quiet(config) ==
    /\ ~ Get(config, "extra_shapes", Bool(FALSE)).v
    /\ ~ In("particles", Get(config, "effects", Lst(<<>>)))
    /\ ~ In("lens_flare", Get(config, "effects", Lst(<<>>)))

\* C25: generate reads the random source only in the extra-shapes and
\* post-effects stages: a call whose config has extra_shapes false and
\* neither "particles" nor "lens_flare" among its effects leaves the random
\* source in the state it found it in, and paints and raises exactly what
\* the same call paints and raises from random state 0, whatever state the
\* random source was in.
C25_RandomOnlyWhenAsked ==
    \A k \in 1..Len(last.renders) :
        Quiet(last.renders[k].config) =>
            /\ last.renders[k].rng_after = last.renders[k].rng
            /\ last.renders[k].surface
                  = generate(last.renders[k].width, last.renders[k].height,
                             last.renders[k].config, 0).surface
            /\ last.renders[k].exc
                  = generate(last.renders[k].width, last.renders[k].height,
                             last.renders[k].config, 0).exc

\* a completed generate(config) with a quiet config that asks for a
\* gradient, a pattern and a glow, started from a random state other than 0
C25_Witness ==
    /\ last.op = "generate" /\ last.exc = "" /\ last.arg # None
    /\ Quiet(last.arg)
    /\ In("glow", Get(last.arg, "effects", Lst(<<>>)))
    /\ Get(last.arg, "pattern", Str("none")) # Str("none")
    /\ last.renders[1].rng # 0
    /\ rng = last.renders[1].rng
    /\ Len(last.ret.ops) >= 3

(***************************************************************************)
(* generate_variations and the caller's base config.                       *)
(***************************************************************************)
\* C26: generate_variations leaves base_config as it was, with the same
\* keys and values, and every variant is a variation of the base config
\* itself: the config it renders is the one the loop's draws make of
\* base_config from some state of the random source, and from the second
\* variant on from the state the render before it left, whatever the
\* variants before it were.
C26_BaseConfigKept ==
    last.op = "generate_variations" =>
        /\ base_config_after(last.arg.base_config, last.renders) = last.arg.base_config
        /\ \A k \in 1..Len(last.renders) :
               /\ \E r \in 0..(RngMod - 1) :
                      /\ last.renders[k].config = variation_config(last.arg.base_config, r).config
                      /\ last.renders[k].rng = variation_config(last.arg.base_config, r).rng
               /\ k > 1 =>
                      last.renders[k].config
                        = variation_config(last.arg.base_config,
                                           last.renders[k - 1].rng_after).config

\* two variants of a three-colour base: the first has other colours than
\* the base and the second other colours than the first
C26_Witness ==
    /\ last.op = "generate_variations" /\ last.exc = ""
    /\ Len(last.renders) = 2
    /\ "colors" \in DOMAIN last.arg.base_config
    /\ Len(last.arg.base_config["colors"].v) = 3
    /\ last.renders[1].config["colors"] # last.arg.base_config["colors"]
    /\ last.renders[2].config["colors"] # last.renders[1].config["colors"]
    /\ last.renders[2].config["colors"] # last.arg.base_config["colors"]

(***************************************************************************)
(* The engine's operations mixed: what save_config writes after any        *)
(* sequence of them.                                                       *)
(***************************************************************************)
\* configs passed to the engine: one that draws no random numbers, one
\* whose decorative shapes do, and one whose empty colour list makes the
\* pipeline raise
EngineConfigs ==
    { Cfg(Palette3, "shield_badge", "grid", <<"glow">>, "Sub", "none", FALSE),
      Cfg(Palette2, "monogram", "none", <<>>, "", "shadow", TRUE),
      Cfg(Palette0, "monogram", "grid", <<>>, "", "none", FALSE) }

NextEngine ==
    \/ \E config \in EngineConfigs : Generate(config)
    \/ GenerateRandom
    \/ \E count \in 0..MaxCount, fail_at \in -1..MaxCount :
          /\ fail_at <= count
          /\ BatchGenerate(count, LOGOS, LOGO, fail_at)
    \/ \E base_config \in EngineConfigs, count \in 0..MaxCount :
          GenerateVariations(base_config, count, VARIATIONS, 0)
    \/ \E config \in EngineConfigs, sizes \in {Lst(<<>>), Lst(<<<<64, 64>>>>)} :
          GenerateSizeVariants(config, sizes, SIZES, 0)
    \/ \E filename \in ConfigFiles, writable \in BOOLEAN : SaveConfig(filename, writable)
    \/ \E filename \in ConfigFiles : LoadConfig(filename)

SpecEngine == Init /\ [][NextEngine]_vars

\* C27: after any sequence of engine operations, a save_config that
\* returns has written the serialization of the config of the most recent
\* generate call made on the engine (passed by the caller, synthesized for
\* an absent config, or made inside batch_generate, generate_variations or
\* generate_size_variants), and of an empty mapping if generate was never
\* called.
C27_SavesMostRecentConfig ==
    (last.op = "save_config" /\ last.exc = "") =>
        json_files[last.arg.v] = save_config(IF recent = None THEN EmptyDict ELSE recent)

\* a config file written after a batch operation: it holds a config that
\* no caller passed, made inside the operation
C27_Witness ==
    /\ last.op = "save_config" /\ last.exc = ""
    /\ runs = 1
    /\ recent # None
    /\ recent \notin EngineConfigs
    /\ json_files[last.arg.v] = save_config(recent)
    /\ json_files[last.arg.v] # save_config(EmptyDict)

\* a config file written before any generate call: an empty mapping
C27_WitnessEmpty ==
    /\ last.op = "save_config" /\ last.exc = ""
    /\ recent = None
    /\ json_files[last.arg.v] = save_config(EmptyDict)

(***************************************************************************)
(* The desktop front-end (gui.py).  The UI thread runs the button          *)
(* commands and the callbacks queued with root.after, one at a time; each  *)
(* click on GENERATE starts a worker thread that shares the LogoGenerator, *)
(* the random source and the output directory with the UI thread.  A step  *)
(* of a worker is one statement of _run_generation: the glob, the removal  *)
(* of one file, one iteration of the loop, one root.after call.            *)
(***************************************************************************)
\* the number of clicks on GENERATE in a behaviour
MaxClicks == 2

\* for i in range(5)
BatchSize == 5

GUI_LOGOS == <<"g", "u", "i", "_", "l", "o", "g", "o", "s">>

\* os.path.join(self.output_dir, f"logo_{i}.png")
gui_path(i) ==
    join(GUI_LOGOS, <<"l", "o", "g", "o", "_">> \o Decimal(i) \o <<".", "p", "n", "g">>)

\* the path matches os.path.join(output_dir, "*.png")
MatchesPng(path, output_dir) ==
    /\ Len(path) >= Len(output_dir) + 5
    /\ SubSeq(path, 1, Len(output_dir) + 1) = output_dir \o <<"/">>
    /\ SubSeq(path, Len(path) - 3, Len(path)) = <<".", "p", "n", "g">>
    /\ \A j \in (Len(output_dir) + 2)..Len(path) : path[j] # "/"

\* glob.glob(os.path.join(self.output_dir, "*.png"))
glob(files, output_dir) == {path \in DOMAIN files : MatchesPng(path, output_dir)}

\* os.remove(f) inside try/except: pass
remove(files, f) == [path \in (DOMAIN files) \ {f} |-> files[path]]

\* a thread started on _run_generation(text), before its first statement
NewWorker(text) ==
    [pc |-> "glob", text |-> text, files |-> {}, i |-> 0, new_batch |-> <<>>, exc |-> ""]

\* the thread has statements left to run
Running(w) == w.pc \notin {"done", "died"}

\* a click handler that leaves the GENERATE button enabled
generate_logos_enabled(g, entry) ==
    [g EXCEPT !.workers = Append(@, NewWorker(IF entry = "" THEN "LOGO" ELSE entry))]

\* generate_logos with entry in the text field (held without the blanks
\* strip() removes): text = entry or "LOGO", the button is disabled, the
\* thread is started
generate_logos(g, entry) ==
    [g EXCEPT !.gen_button = "disabled",
              !.workers = Append(@, NewWorker(IF entry = "" THEN "LOGO" ELSE entry))]

\* update_nav_buttons
update_nav_buttons(g) ==
    IF g.current_batch = <<>>
    THEN [g EXCEPT !.prev_btn = "disabled", !.next_btn = "disabled"]
    ELSE [g EXCEPT
            !.prev_btn = IF g.current_index > 0 THEN "normal" ELSE "disabled",
            !.next_btn = IF g.current_index < Len(g.current_batch) - 1
                         THEN "normal" ELSE "disabled"]

\* display_current_logo called by handler by: Image.open(path) raises when
\* no file is at path, and the image opened is recorded in opened
display_current_logo(g, files, by) ==
    IF g.current_batch = <<>> THEN g
    ELSE [g EXCEPT !.opened = [by |-> by,
                               path |-> g.current_batch[g.current_index + 1],
                               found |-> g.current_batch[g.current_index + 1]
                                            \in DOMAIN files]]

\* display_current_logo(); update_nav_buttons() -- the second is skipped
\* when the first raises
DisplayThenNav(g, g_shown) ==
    IF g_shown.opened # g.opened /\ ~ g_shown.opened.found THEN g_shown
    ELSE update_nav_buttons(g_shown)

\* show_prev
show_prev(g, files) ==
    IF g.current_index > 0
    THEN DisplayThenNav(g, display_current_logo([g EXCEPT !.current_index = @ - 1],
                                                files, "show_prev"))
    ELSE g

\* show_next
show_next(g, files) ==
    IF g.current_index < Len(g.current_batch) - 1
    THEN DisplayThenNav(g, display_current_logo([g EXCEPT !.current_index = @ + 1],
                                                files, "show_next"))
    ELSE g

\* _on_generation_complete(batch)
_on_generation_complete(g, files, batch) ==
    display_current_logo(
        update_nav_buttons([g EXCEPT !.current_batch = batch, !.current_index = 0,
                                     !.gen_button = "normal"]),
        files, "_on_generation_complete")

\* the callback cb run by the event loop: the completion callback, the
\* error dialog, or the lambda that enables the button again
run_callback(g, files, cb) ==
    CASE cb.f = "_on_generation_complete" -> _on_generation_complete(g, files, cb.batch)
      [] cb.f = "showerror" -> g
      [] OTHER -> [g EXCEPT !.gen_button = "normal"]

Callback(f, batch) == [f |-> f, batch |-> batch]

\* one iteration of _run_generation's loop for loop index i
GuiStepWith(ls, rc, text, i, save_ok) ==
    render_and_save(ls, WithKey(rc.config, "text", Str(text)), rc.rng, gui_path(i), save_ok)

gui_step(ls, text, i, save_ok) == GuiStepWith(ls, _random_config(ls.rng), text, i, save_ok)

\* the worker after an iteration that left ls
AfterStep(w, ls) ==
    IF ls.exc # "" THEN [w EXCEPT !.pc = "except", !.exc = ls.exc]
    ELSE [w EXCEPT !.i = @ + 1,
                   !.new_batch = @ \o ls.generated_files,
                   !.pc = IF w.i + 1 = BatchSize THEN "after" ELSE "loop"]

GuiFrame == UNCHANGED <<json_files, composer, adds, cleared, saved, runs, last>>

\* a click on GENERATE; a disabled button ignores clicks
GenerateLogos(entry) ==
    /\ gui.gen_button = "normal"
    /\ Len(gui.workers) < MaxClicks
    /\ gui' = generate_logos(gui, entry)
    /\ UNCHANGED <<gen, rng, png_files, recent>>
    /\ GuiFrame

\* files = glob.glob(...)
Glob(k) ==
    /\ gui.workers[k].pc = "glob"
    /\ gui' = [gui EXCEPT !.workers[k].files = glob(png_files, GUI_LOGOS),
                          !.workers[k].pc = IF glob(png_files, GUI_LOGOS) = {}
                                            THEN "loop" ELSE "remove"]
    /\ UNCHANGED <<gen, rng, png_files, recent>>
    /\ GuiFrame

\* one iteration of "for f in files", in the order glob listed the files
Remove(k, f) ==
    /\ gui.workers[k].pc = "remove"
    /\ f \in gui.workers[k].files
    /\ png_files' = remove(png_files, f)
    /\ gui' = [gui EXCEPT !.workers[k].files = @ \ {f},
                          !.workers[k].pc = IF gui.workers[k].files = {f}
                                            THEN "loop" ELSE "remove"]
    /\ UNCHANGED <<gen, rng, recent>>
    /\ GuiFrame

\* the engine, the random source, the files and worker k after an
\* iteration of the loop that left ls
Iterated(k, ls) ==
    /\ gen' = ls.gen
    /\ rng' = ls.rng
    /\ png_files' = ls.files
    /\ recent' = ls.renders[1].config
    /\ gui' = [gui EXCEPT !.workers[k] = AfterStep(@, ls)]
    /\ GuiFrame

\* one iteration of "for i in range(5)"
Iterate(k, save_ok) ==
    /\ gui.workers[k].pc = "loop"
    /\ Iterated(k, gui_step(LoopState(gen, rng, png_files), gui.workers[k].text,
                            gui.workers[k].i, save_ok))

\* self.root.after(0, self._on_generation_complete, new_batch), the
\* thread's last statement
AfterComplete(k) ==
    /\ gui.workers[k].pc = "after"
    /\ gui' = [gui EXCEPT
                 !.after = Append(@, Callback("_on_generation_complete",
                                              gui.workers[k].new_batch)),
                 !.workers[k].pc = "done"]
    /\ UNCHANGED <<gen, rng, png_files, recent>>
    /\ GuiFrame

\* the handler's first statements: the traceback is written to
\* gui_error.log; log_ok is whether the file can be written, and if not the
\* exception leaves the thread
LogError(k, log_ok) ==
    /\ gui.workers[k].pc = "except"
    /\ gui' = [gui EXCEPT !.workers[k].pc = IF log_ok THEN "after_showerror" ELSE "died"]
    /\ UNCHANGED <<gen, rng, png_files, recent>>
    /\ GuiFrame

\* the handler's two root.after calls, one step each
AfterError(k) ==
    /\ gui.workers[k].pc \in {"after_showerror", "after_enable"}
    /\ gui' = IF gui.workers[k].pc = "after_showerror"
              THEN [gui EXCEPT !.after = Append(@, Callback("showerror", <<>>)),
                               !.workers[k].pc = "after_enable"]
              ELSE [gui EXCEPT !.after = Append(@, Callback("enable", <<>>)),
                               !.workers[k].pc = "done"]
    /\ UNCHANGED <<gen, rng, png_files, recent>>
    /\ GuiFrame

\* the event loop runs the oldest queued callback
RunCallback ==
    /\ gui.after # <<>>
    /\ gui' = run_callback([gui EXCEPT !.after = Tail(@)], png_files, Head(gui.after))
    /\ UNCHANGED <<gen, rng, png_files, recent>>
    /\ GuiFrame

\* a click on Previous
ShowPrev ==
    /\ gui.prev_btn = "normal"
    /\ gui' = show_prev(gui, png_files)
    /\ UNCHANGED <<gen, rng, png_files, recent>>
    /\ GuiFrame

\* a click on Next
ShowNext ==
    /\ gui.next_btn = "normal"
    /\ gui' = show_next(gui, png_files)
    /\ UNCHANGED <<gen, rng, png_files, recent>>
    /\ GuiFrame

\* what the text field holds at a click
Entries == {"", "AB"}

\* a statement of worker k
WorkerStep(k) ==
    \/ Glob(k)
    \/ \E f \in gui.workers[k].files : Remove(k, f)
    \/ \E save_ok \in BOOLEAN : Iterate(k, save_ok)
    \/ AfterComplete(k)
    \/ \E log_ok \in BOOLEAN : LogError(k, log_ok)
    \/ AfterError(k)

Workers == \E k \in 1..Len(gui.workers) : WorkerStep(k)

NextGui ==
    \/ \E entry \in Entries : GenerateLogos(entry)
    \/ Workers
    \/ RunCallback
    \/ ShowPrev
    \/ ShowNext

\* the GUI builds its own LogoGenerator(width=500, height=500)
InitGui == Init /\ gen.width = 500 /\ gen.height = 500

SpecGui == InitGui /\ [][NextGui]_vars

\* a worker thread has statements left; every such thread has a statement
\* it can run, so this is ENABLED <<Workers>>_vars
AnyRunning == \E k \in 1..Len(gui.workers) : Running(gui.workers[k])

\* the worker threads keep being scheduled: WF_vars(Workers), with its
\* ENABLED written as the state predicate it equals
WorkersScheduled == []<>(~ AnyRunning) \/ []<><<Workers>>_vars

\* the worker threads and the event loop keep being scheduled
SpecGuiFair == SpecGui /\ WorkersScheduled /\ WF_vars(RunCallback)

\* a callback that enables the GENERATE button is queued
EnablePending ==
    \E j \in 1..Len(gui.after) : gui.after[j].f \in {"_on_generation_complete", "enable"}

\* C28: at most one worker thread runs at any time, and the GENERATE
\* button is disabled from the click that starts a worker until the
\* worker's completion callback, or the callback of its error handler that
\* enables the button, has run on the UI thread: while a worker has
\* statements left or such a callback is queued, the button is disabled.
C28_OneWorker ==
    /\ Cardinality({k \in 1..Len(gui.workers) : Running(gui.workers[k])}) <= 1
    /\ ((\E k \in 1..Len(gui.workers) : Running(gui.workers[k])) \/ EnablePending)
          => gui.gen_button = "disabled"

\* a second worker in its loop, started after the first one's completion
\* callback ran, with the button disabled again
C28_Witness ==
    /\ Len(gui.workers) = 2
    /\ gui.workers[1].pc = "done"
    /\ gui.workers[2].pc = "loop" /\ gui.workers[2].i = 2
    /\ gui.current_batch # <<>>
    /\ gui.gen_button = "disabled"

\* C29: whenever Previous or Next displays a logo, the path
\* current_batch[current_index] it opens is the path of a file that exists
\* on disk, under every interleaving of the clicks with a running worker.
C29_NavigationOpensExistingFile ==
    (gui.opened # None /\ gui.opened.by \in {"show_prev", "show_next"}) => gui.opened.found

\* C30: every generation eventually enables the GENERATE button again:
\* whenever the button is disabled, the UI thread eventually runs a
\* callback that sets it back to enabled.
C30_ButtonReenabled == (gui.gen_button = "disabled") ~> (gui.gen_button = "normal")

====
